---------------------------- MODULE Spec2Model ----------------------------
(***************************************************************************)
(* Model of the release scripts of OpenResponses:                          *)
(*   scripts/sync_app_store_metadata.py   (the metadata pipeline)          *)
(*   scripts/secret_scan.py               (the secret scanner)             *)
(*   scripts/generate_portfolio_content.py (the portfolio generator)       *)
(*                                                                         *)
(* Text is modelled with TLA+ strings, read as sequences of one-character  *)
(* strings (Len, SubSeq, \o).  TLA+ strings are ASCII, so each of the nine *)
(* non-ASCII code points of ASCII_MAP is written as one ASCII character    *)
(* that occurs nowhere else in the modelled documents.                     *)
(***************************************************************************)
EXTENDS Integers, Sequences, FiniteSets, TLC

VARIABLES
    exists,          \* SOURCE.exists()
    text,            \* the content of docs/AppStoreMetadata.md
    shape,           \* how the document was built (the set of its deviations)
    pc,              \* position of main()
    sections,        \* main: sections
    release_key,     \* main: release_key ("" models None)
    quick_ref,       \* main: quick_ref
    urls,            \* main: urls
    review_info,     \* main: review_info
    fields,          \* main: name, subtitle, ..., privacy_url
    files,           \* main: files, in dict order
    review_files,    \* main: review_files, in dict order
    cursor,          \* index of the next item of the running write loop
    writes,          \* every path.write_text of the run, in order
    stderr,          \* lines printed to sys.stderr
    stdout,          \* lines printed to sys.stdout
    exit_code,       \* the value main() returns (-1 while it runs)
    input,           \* function specifications: the argument as it was built
    arg,             \* function specifications: the argument handed to the code
    result,          \* function specifications: what the code returned
    applied,         \* function specifications: the function that was applied
    repo,            \* secret_scan: the entries under REPO_ROOT
    scanned,         \* secret_scan: the files scan_file was called on, in order
    findings,        \* secret_scan main: findings
    scan_pc,         \* secret_scan: position of main()
    scan_out,        \* secret_scan: lines printed to sys.stdout
    scan_exit,       \* secret_scan: the value main() returns (-1 while it runs)
    tree,            \* generate_portfolio_content: the input files that exist
    readme,          \* generate_portfolio_content main: readme
    roadmap,         \* generate_portfolio_content main: roadmap
    status,          \* generate_portfolio_content main: status
    features,        \* generate_portfolio_content main: features
    coverage,        \* generate_portfolio_content main: coverage
    gen_pc,          \* generate_portfolio_content: position of main()
    gen_out,         \* generate_portfolio_content: lines printed to sys.stdout
    gen_files        \* generate_portfolio_content: the files written, in order

vars == <<exists, text, shape, pc, sections, release_key, quick_ref, urls,
          review_info, fields, files, review_files, cursor, writes, stderr,
          stdout, exit_code, input, arg, result, applied,
          repo, scanned, findings, scan_pc, scan_out, scan_exit,
          tree, readme, roadmap, status, features, coverage, gen_pc, gen_out,
          gen_files>>

mainVars == <<exists, text, shape, pc, sections, release_key, quick_ref, urls,
              review_info, fields, files, review_files, cursor, writes,
              stderr, stdout, exit_code>>

fnVars == <<input, arg, result, applied>>

scanVars == <<repo, scanned, findings, scan_pc, scan_out, scan_exit>>

genVars == <<tree, readme, roadmap, status, features, coverage, gen_pc, gen_out,
             gen_files>>

\* the two other scripts are not running
ScriptsIdle ==
    /\ repo = {} /\ scanned = <<>> /\ findings = <<>> /\ scan_pc = "off"
    /\ scan_out = <<>> /\ scan_exit = -1
    /\ tree = <<>> /\ readme = "" /\ roadmap = "" /\ status = <<>>
    /\ features = <<>> /\ coverage = <<>> /\ gen_pc = "off" /\ gen_out = <<>>
    /\ gen_files = <<>>

---------------------------------------------------------------------------
(* Characters                                                              *)

EM_DASH == "~"
EN_DASH == "^"
RIGHT_SQUOTE == "}"
LEFT_SQUOTE == "{"
LEFT_DQUOTE == "$"
RIGHT_DQUOTE == "&"
ELLIPSIS == ";"
MIDLINE_ELLIPSIS == "!"
NBSP == "?"

\* str.isspace(): what str.strip()/rstrip() remove and what \s matches
Whitespace == {" ", "\t", "\n", "\r", "\f", NBSP}

\* the line boundaries of str.splitlines() that a TLA+ string can hold
LineBreaks == {"\n", "\r", "\f"}

Lower == {"a","b","c","d","e","f","g","h","i","j","k","l","m",
          "n","o","p","q","r","s","t","u","v","w","x","y","z"}

Upper == {"A","B","C","D","E","F","G","H","I","J","K","L","M",
          "N","O","P","Q","R","S","T","U","V","W","X","Y","Z"}

Digits == {"0","1","2","3","4","5","6","7","8","9"}

Letters == Lower \cup Upper

---------------------------------------------------------------------------
(* Python str operations                                                   *)

\* s[a-1:b] of Python: the characters a..b (1-based), clamped to the string
Slice(s, a, b) ==
    LET lo == IF a < 1 THEN 1 ELSE a
        hi == IF b > Len(s) THEN Len(s) ELSE b
    IN  IF lo > hi THEN "" ELSE SubSeq(s, lo, hi)

Char(s, i) == SubSeq(s, i, i)

MinOf(S) == CHOOSE m \in S : \A x \in S : m <= x

MaxOf(S) == CHOOSE m \in S : \A x \in S : m >= x

\* s.startswith(p)
StartsWith(s, p) == Len(s) >= Len(p) /\ Slice(s, 1, Len(p)) = p

\* s.find(p, from) + 1 with 1-based from; 0 when p does not occur
FindFrom(s, p, from) ==
    LET at == {i \in from..(Len(s) - Len(p) + 1) : Slice(s, i, i + Len(p) - 1) = p}
    IN  IF at = {} THEN 0 ELSE MinOf(at)

\* p in s
Contains(s, p) == FindFrom(s, p, 1) > 0

\* s.lstrip()
LStrip(s) ==
    LET keep == {i \in 1..Len(s) : Char(s, i) \notin Whitespace}
    IN  IF keep = {} THEN "" ELSE Slice(s, MinOf(keep), Len(s))

\* s.rstrip()
RStrip(s) ==
    LET keep == {i \in 1..Len(s) : Char(s, i) \notin Whitespace}
    IN  IF keep = {} THEN "" ELSE Slice(s, 1, MaxOf(keep))

\* s.strip()
Strip(s) == LStrip(RStrip(s))

\* s.rstrip(chars)
RStripChars(s, chars) ==
    LET keep == {i \in 1..Len(s) : Char(s, i) \notin chars}
    IN  IF keep = {} THEN "" ELSE Slice(s, 1, MaxOf(keep))

\* s.replace(src, dst): occurrences left to right, not overlapping
RECURSIVE Replace(_, _, _)
Replace(text0, src, dst) ==
    CHOOSE replaced \in
        {IF i = 0 THEN s
         ELSE Slice(s, 1, i - 1) \o dst
              \o Replace(Slice(s, i + Len(src), Len(s)), src, dst) :
             <<s, i>> \in {<<x, FindFrom(x, src, 1)>> : x \in {text0}}} : TRUE

\* sep.join(lines[lo..hi]), the range halved so that evaluation stays shallow
RECURSIVE JoinRange(_, _, _, _)
JoinRange(lines, sep, lo, hi) ==
    IF lo > hi THEN ""
    ELSE IF lo = hi THEN lines[lo]
    ELSE LET mid == (lo + hi) \div 2
         IN  JoinRange(lines, sep, lo, mid) \o sep \o JoinRange(lines, sep, mid + 1, hi)

\* sep.join(lines)
Join(lines, sep) == JoinRange(lines, sep, 1, Len(lines))

\* s.splitlines(): "\r\n" is one boundary, and a final boundary opens no line
SplitLines(s) ==
    LET n      == Len(s)
        lb     == {i \in 1..n : Char(s, i) \in LineBreaks}
        ends   == {i \in lb : ~(Char(s, i) = "\r" /\ i < n /\ Char(s, i + 1) = "\n")}
        starts == IF n = 0 THEN {} ELSE ({1} \cup {e + 1 : e \in ends}) \ {n + 1}
        kth(k) == CHOOSE a \in starts : Cardinality({b \in starts : b < a}) = k - 1
        line(a) == Slice(s, a, MinOf({i \in lb : i >= a} \cup {n + 1}) - 1)
    IN  [k \in 1..Cardinality(starts) |-> line(kth(k))]

\* s.split(): the maximal runs of non-whitespace characters, in order
SplitWords(s) ==
    LET n      == Len(s)
        ink    == {i \in 1..n : Char(s, i) \notin Whitespace}
        starts == {i \in ink : i = 1 \/ (i - 1) \notin ink}
        kth(k) == CHOOSE a \in starts : Cardinality({b \in starts : b < a}) = k - 1
        word(a) == Slice(s, a, MinOf({i \in a..n : i \notin ink} \cup {n + 1}) - 1)
    IN  [k \in 1..Cardinality(starts) |-> word(kth(k))]

\* s.split(sep)[0]
BeforeFirst(s, sep) ==
    LET i == FindFrom(s, sep, 1)
    IN  IF i = 0 THEN s ELSE Slice(s, 1, i - 1)

---------------------------------------------------------------------------
(* dict, in insertion order: a sequence of <<key, value>> with unique keys *)

DictKeys(d) == [i \in 1..Len(d) |-> d[i][1]]

DictHas(d, k) == \E i \in 1..Len(d) : d[i][1] = k

DictGet(d, k) == d[CHOOSE i \in 1..Len(d) : d[i][1] = k][2]

\* d[k] = v
DictSet(d, k, v) ==
    IF DictHas(d, k)
    THEN LET i == CHOOSE j \in 1..Len(d) : d[j][1] = k
         IN  SubSeq(d, 1, i - 1) \o <<<<k, v>>>> \o SubSeq(d, i + 1, Len(d))
    ELSE Append(d, <<k, v>>)

---------------------------------------------------------------------------
(* asciiize, strip_markdown, normalize_plain, normalize_markdown           *)

ASCII_MAP ==
    << <<EM_DASH, "--">>, <<EN_DASH, "-">>, <<RIGHT_SQUOTE, "'">>,
       <<LEFT_SQUOTE, "'">>, <<LEFT_DQUOTE, "\"">>, <<RIGHT_DQUOTE, "\"">>,
       <<ELLIPSIS, "...">>, <<MIDLINE_ELLIPSIS, "...">>, <<NBSP, " ">> >>

RECURSIVE AsciiizeFrom(_, _)
AsciiizeFrom(s, k) ==
    IF k > Len(ASCII_MAP) THEN s
    ELSE AsciiizeFrom(Replace(s, ASCII_MAP[k][1], ASCII_MAP[k][2]), k + 1)

asciiize(s) == AsciiizeFrom(s, 1)

\* re.sub(r"^#{1,6}\s+", "", line)
StripHeadingMarker(line) ==
    LET n      == Len(line)
        hashes == MinOf({i \in 1..n : Char(line, i) # "#"} \cup {n + 1}) - 1
        after  == MinOf({i \in (hashes + 1)..n : Char(line, i) \notin Whitespace}
                        \cup {n + 1})
    IN  IF hashes >= 1 /\ hashes <= 6 /\ after > hashes + 1
        THEN Slice(line, after, n)
        ELSE line

\* re.sub(r"\*([^*]+)\*", r"\1", line)
RECURSIVE UnwrapItalics(_)
UnwrapItalics(line) ==
    LET n     == Len(line)
        stars == {i \in 1..n : Char(line, i) = "*"}
        open  == {i \in stars : (i + 1) \in 1..n /\ (i + 1) \notin stars
                                /\ \E j \in stars : j > i}
    IN  IF open = {} THEN line
        ELSE LET i == MinOf(open)
                 j == MinOf({k \in stars : k > i})
             IN  Slice(line, 1, i - 1) \o Slice(line, i + 1, j - 1)
                 \o UnwrapItalics(Slice(line, j + 1, n))

strip_markdown(line) ==
    UnwrapItalics(Replace(StripHeadingMarker(line), "**", ""))

normalize_plain(lines) ==
    Strip(Join([i \in 1..Len(lines) |-> asciiize(RStrip(lines[i]))], "\n"))

normalize_markdown(lines) ==
    Strip(Join([i \in 1..Len(lines) |-> asciiize(strip_markdown(RStrip(lines[i])))], "\n"))

---------------------------------------------------------------------------
(* parse_sections                                                          *)

\* a variant that cuts the heading at the parenthesis itself: split("(")
HeadingLabelAtParen(line) == Strip(BeforeFirst(Strip(Slice(line, 4, Len(line))), "("))

\* the label of a "## " line: line[3:].strip().split(" (")[0].strip()
HeadingLabel(line) == Strip(BeforeFirst(Strip(Slice(line, 4, Len(line))), " ("))

\* a variant that starts the section afresh: sections[current] = []
SetAfresh(d, k, v) == DictSet(d, k, v)

\* sections.setdefault(current, [])
SetDefault(d, k, v) == IF DictHas(d, k) THEN d ELSE Append(d, <<k, v>>)

\* one pass of the loop of parse_sections (lines 36-43) on st = [sections,
\* current]; current is <<>> for None and <<label>> otherwise
SectionStep(st, line) ==
    IF StartsWith(line, "## ")
    THEN [sections |-> SetDefault(st.sections, HeadingLabel(line), <<>>),
          current  |-> <<HeadingLabel(line)>>]
    ELSE IF st.current # <<>>
    THEN [sections |-> DictSet(st.sections, st.current[1],
                               Append(DictGet(st.sections, st.current[1]), line)),
          current  |-> st.current]
    ELSE st

\* the loop over lines[lo..hi], in order, the range halved so that
\* evaluation stays shallow
RECURSIVE ParseSectionsLoop(_, _, _, _)
ParseSectionsLoop(st, lines, lo, hi) ==
    IF lo > hi THEN st
    ELSE IF lo = hi THEN SectionStep(st, lines[lo])
    ELSE LET mid  == (lo + hi) \div 2
             left == ParseSectionsLoop(st, lines, lo, mid)
         IN  IF left = left     \* has TLC evaluate the left half first
             THEN ParseSectionsLoop(left, lines, mid + 1, hi) ELSE st

parse_sections(t) ==
    LET lines == SplitLines(t)
    IN  ParseSectionsLoop([sections |-> <<>>, current |-> <<>>], lines, 1, Len(lines)).sections

\* sections.get(key, [])
SectionLines(secs, key) == IF DictHas(secs, key) THEN DictGet(secs, key) ELSE <<>>

---------------------------------------------------------------------------
(* parse_labeled_bullets                                                   *)

\* the first index >= from of s whose character is not in cs (Len(s)+1 if none)
SkipWhile(s, from, cs) ==
    MinOf({i \in from..Len(s) : Char(s, i) \notin cs} \cup {Len(s) + 1})

\* re.compile(r"^-\s+\*\*([^*]+)\*\*\s+(.*)$").match(s):
\* <<>> when there is no match, <<group 1, group 2>> otherwise
BulletMatch(s) ==
    LET n == Len(s)
        a == SkipWhile(s, 2, Whitespace)                \* start of "**"
        b == MinOf({i \in (a + 2)..n : Char(s, i) = "*"} \cup {n + 1})
        c == SkipWhile(s, b + 2, Whitespace)            \* start of group 2
    IN  IF /\ n >= 1 /\ Char(s, 1) = "-"
           /\ a > 2 /\ a + 1 <= n /\ Slice(s, a, a + 1) = "**"
           /\ b > a + 2 /\ b + 1 <= n /\ Slice(s, b, b + 1) = "**"
           /\ c > b + 2
           /\ ~Contains(Slice(s, c, n), "\n")
        THEN <<Slice(s, a + 2, b - 1), Slice(s, c, n)>>
        ELSE <<>>

\* a variant that keeps the first value of a label: data.setdefault
BulletStepFirstWins(data, line) ==
    LET m == BulletMatch(Strip(line))
    IN  IF m = <<>> \/ DictHas(data, RStripChars(Strip(m[1]), {":"})) THEN data
        ELSE DictSet(data, RStripChars(Strip(m[1]), {":"}), Strip(m[2]))

\* one pass of the loop of parse_labeled_bullets (lines 67-71)
BulletStep(data, line) ==
    LET m == BulletMatch(Strip(line))
    IN  IF m = <<>> THEN data
        ELSE DictSet(data, RStripChars(Strip(m[1]), {":"}), Strip(m[2]))

\* the loop over lines[lo..hi], in order, the range halved so that
\* evaluation stays shallow
RECURSIVE ParseBulletsLoop(_, _, _, _)
ParseBulletsLoop(data, lines, lo, hi) ==
    IF lo > hi THEN data
    ELSE IF lo = hi THEN BulletStep(data, lines[lo])
    ELSE LET mid  == (lo + hi) \div 2
             left == ParseBulletsLoop(data, lines, lo, mid)
         IN  IF left = left     \* has TLC evaluate the left half first
             THEN ParseBulletsLoop(left, lines, mid + 1, hi) ELSE data

parse_labeled_bullets(lines) == ParseBulletsLoop(<<>>, lines, 1, Len(lines))

---------------------------------------------------------------------------
(* require and the extractors                                              *)

\* require(mapping, key) returns (it raises KeyError(key) otherwise)
RequireOk(mapping, key) == DictHas(mapping, key) /\ Strip(DictGet(mapping, key)) # ""

require(mapping, key) == Strip(DictGet(mapping, key))

\* a variant that reports the last key for which require raises
LastMissing(mapping, keys) ==
    LET bad == {i \in 1..Len(keys) : ~RequireOk(mapping, keys[i])}
    IN  IF bad = {} THEN "" ELSE keys[MaxOf(bad)]

\* the first key of keys for which require raises; "" when none does
FirstMissing(mapping, keys) ==
    LET bad == {i \in 1..Len(keys) : ~RequireOk(mapping, keys[i])}
    IN  IF bad = {} THEN "" ELSE keys[MinOf(bad)]

\* value.split()[0]; callers pass a stripped, non-empty value
FirstWord(value) == SplitWords(value)[1]

extract_url(value) ==
    LET n    == Len(value)
        \* re.search(r"<([^>]+)>", value)
        gt(i) == MinOf({j \in (i + 1)..n : Char(value, j) = ">"} \cup {n + 1})
        lts  == {i \in 1..n : Char(value, i) = "<" /\ gt(i) <= n /\ gt(i) > i + 1}
        \* re.search(r"https?://\S+", value)
        plen(i) == IF Slice(value, i, i + 6) = "http://" THEN 7
                   ELSE IF Slice(value, i, i + 7) = "https://" THEN 8 ELSE 0
        https == {i \in 1..n : plen(i) > 0 /\ i + plen(i) <= n
                               /\ Char(value, i + plen(i)) \notin Whitespace}
    IN  IF value = "" THEN ""
        ELSE IF lts # {} THEN Slice(value, MinOf(lts) + 1, gt(MinOf(lts)) - 1)
        ELSE IF https # {}
             THEN RStripChars(Slice(value, MinOf(https),
                                    SkipWhile(value, MinOf(https),
                                              {Char(value, j) : j \in 1..n} \ Whitespace) - 1),
                              {")", ".", ","})
        ELSE FirstWord(value)

EmailLocal == Letters \cup Digits \cup {".", "_", "%", "+", "-"}
EmailDomain == Letters \cup Digits \cup {".", "-"}

extract_email(value) ==
    LET n == Len(value)
        \* re.search(r"mailto:([^>\\s]+)", value): the class excludes
        \* ">", the backslash and the letter s
        stop == {">", "\\", "s"}
        mts  == {i \in 1..n : Slice(value, i, i + 6) = "mailto:" /\ i + 7 <= n
                              /\ Char(value, i + 7) \notin stop}
        mend(i) == MinOf({j \in (i + 7)..n : Char(value, j) \in stop} \cup {n + 1}) - 1
        \* re.search(r"[A-Za-z0-9._%+-]+@[A-Za-z0-9.-]+\\.[A-Za-z]{2,}", value):
        \* after the domain it wants a backslash, any character, two letters
        dend(a) == MinOf({j \in (a + 1)..n : Char(value, j) \notin EmailDomain}
                         \cup {n + 1}) - 1
        tend(a) == MinOf({j \in (dend(a) + 3)..n : Char(value, j) \notin Letters}
                         \cup {n + 1}) - 1
        ats  == {a \in 2..n : /\ Char(value, a) = "@"
                              /\ Char(value, a - 1) \in EmailLocal
                              /\ dend(a) > a
                              /\ dend(a) + 2 <= n
                              /\ Char(value, dend(a) + 1) = "\\"
                              /\ Char(value, dend(a) + 2) # "\n"
                              /\ tend(a) >= dend(a) + 4}
        lstart(a) == MaxOf({j \in 1..a : j = 1 \/ Char(value, j - 1) \notin EmailLocal}
                           \cap {j \in 1..a : \A q \in j..(a - 1) : Char(value, q) \in EmailLocal})
    IN  IF value = "" THEN ""
        ELSE IF mts # {} THEN Slice(value, MinOf(mts) + 7, mend(MinOf(mts)))
        ELSE IF ats # {} THEN Slice(value, lstart(MinOf(ats)), tend(MinOf(ats)))
        ELSE FirstWord(value)

PhoneClass == {"\\", "d", "s", "(", ")", ".", "-"}

extract_phone(value) ==
    LET n == Len(value)
        \* re.search(r"\\+?\\d[\\d\\s().-]{6,}", value): two or more
        \* backslashes, the letter d, six or more characters of the class
        rend(i) == SkipWhile(value, i, {"\\"}) - 1      \* end of the backslash run
        cend(i) == SkipWhile(value, rend(i) + 2, PhoneClass) - 1
        runs == {i \in 1..n : /\ Char(value, i) = "\\"
                              /\ rend(i) >= i + 1
                              /\ rend(i) + 1 <= n
                              /\ Char(value, rend(i) + 1) = "d"
                              /\ cend(i) >= rend(i) + 7}
    IN  IF value = "" THEN ""
        ELSE IF runs # {} THEN Strip(Slice(value, MinOf(runs), cend(MinOf(runs))))
        ELSE Strip(value)

UpperSeq == "ABCDEFGHIJKLMNOPQRSTUVWXYZ"
LowerSeq == "abcdefghijklmnopqrstuvwxyz"

LowerChar(c) ==
    IF c \in Upper THEN Char(LowerSeq, FindFrom(UpperSeq, c, 1)) ELSE c

RECURSIVE LowerRange(_, _, _)
LowerRange(s, lo, hi) ==
    IF lo > hi THEN ""
    ELSE IF lo = hi THEN LowerChar(Char(s, lo))
    ELSE LET mid == (lo + hi) \div 2
         IN  LowerRange(s, lo, mid) \o LowerRange(s, mid + 1, hi)

\* s.lower()
ToLower(s) == LowerRange(s, 1, Len(s))

\* a sequence without its leading and trailing blank lines
TrimBlankLines(block) ==
    LET keep == {i \in 1..Len(block) : Strip(block[i]) # ""}
    IN  IF keep = {} THEN <<>> ELSE SubSeq(block, MinOf(keep), MaxOf(keep))

extract_subsection(lines, heading) ==
    LET marker == ToLower(Strip("### " \o heading))
        hits   == {i \in 1..Len(lines) : ToLower(Strip(lines[i])) = marker}
        start  == MinOf(hits) + 1
        stop   == MinOf({i \in start..Len(lines) : StartsWith(lines[i], "### ")}
                        \cup {Len(lines) + 1})
    IN  IF hits = {} THEN <<>>
        ELSE TrimBlankLines(SubSeq(lines, start, stop - 1))

\* the subsequence of lines at the indices of idx, in order
AtIndices(lines, idx) ==
    LET kth(k) == CHOOSE a \in idx : Cardinality({b \in idx : b < a}) = k - 1
    IN  [k \in 1..Cardinality(idx) |-> lines[kth(k)]]

IsNoteLine(line) == StartsWith(ToLower(Strip(line)), "note:")

extract_note_lines(lines) ==
    LET notes == AtIndices(lines, {i \in 1..Len(lines) : IsNoteLine(lines[i])})
    IN  [i \in 1..Len(notes) |-> strip_markdown(Strip(notes[i]))]

split_name(full_name) ==
    LET parts == SplitWords(full_name)
    IN  IF parts = <<>> THEN <<"", "">>
        ELSE IF Len(parts) = 1 THEN <<parts[1], "">>
        ELSE <<parts[1], Join(Tail(parts), " ")>>

---------------------------------------------------------------------------
(* The documents main() is run on                                          *)

\* how many deviations from the reference document one document may have
MaxDeviations == 2

SOURCE == "docs/AppStoreMetadata.md"
OUTPUT_DIR == "fastlane/metadata/en-US"
REVIEW_INFO_DIR == "fastlane/metadata/review_information"

required_sections ==
    <<"Quick Reference", "Promotional Text", "Full Description", "Keywords", "URLs">>

quick_ref_fields == <<"Name", "Subtitle", "Primary Category", "Secondary Category">>

url_fields == <<"Marketing URL", "Support URL", "Privacy Policy URL">>

contact_fields == <<"Contact Name", "Contact Email", "Contact Phone">>

Range(f) == {f[i] : i \in DOMAIN f}

\* every deviation a document may have from the reference document
Deviations ==
    {"no source file"}
    \cup {"no " \o s : s \in Range(required_sections) \cup {"What's New"}}
    \cup {"no " \o f : f \in Range(quick_ref_fields) \cup Range(url_fields)}
    \cup {"bare Name", "bare Secondary Category", "bare Support URL"}
    \cup {"empty Marketing URL"}
    \cup {"blank Promotional Text", "blank Full Description", "blank Keywords",
          "blank What's New"}
    \cup {"no Review Information", "prose Review Information",
          "no Contact Name", "no Contact Email", "bare Contact Phone",
          "single Contact Name"}

\* a heading line, unless the document leaves the section out
Heading(dev, name, line) == IF ("no " \o name) \in dev THEN <<>> ELSE <<line>>

\* a labeled bullet: left out, without a body, or as in the reference document
Bullet(dev, label, line) ==
    IF ("no " \o label) \in dev THEN <<>>
    ELSE IF ("bare " \o label) \in dev THEN <<"- **" \o label \o "**">>
    ELSE <<line>>

\* the lines under a heading: blank, or as in the reference document
Body(dev, name, lines) == IF ("blank " \o name) \in dev THEN <<"", "  ">> ELSE lines

ReviewLines(dev) ==
    IF "no Review Information" \in dev THEN <<>>
    ELSE IF "prose Review Information" \in dev
    THEN <<"## Review Information", "", "Ask the team for the reviewer contact.">>
    ELSE <<"## Review Information", "">>
         \o Bullet(dev, "Contact Name",
                   IF "single Contact Name" \in dev THEN "- **Contact Name** Ann"
                   ELSE "- **Contact Name** **Ann** Lee")
         \o Bullet(dev, "Contact Email", "- **Contact Email** <mailto:ann@b.co>")
         \o Bullet(dev, "Contact Phone", "- **Contact Phone** +1 555 0100")
         \o <<"- **Demo Account:** none",
              "### Demo Content Provided", "", "- one *sample* chat",
              "Note: **test** data", "",
              "### Reviewer Walkthrough", "1. Open Foo">>

DocumentLines(dev) ==
    <<"# App Store Metadata", "">>
    \o Heading(dev, "Quick Reference", "## Quick Reference")
    \o <<"">>
    \o Bullet(dev, "Name", "- **Name** Foo")
    \o Bullet(dev, "Subtitle", "- **Subtitle** Bar")
    \o Bullet(dev, "Primary Category", "- **Primary Category:**  Productivity ")
    \o Bullet(dev, "Secondary Category", "- **Secondary Category** Utilities")
    \o Heading(dev, "Promotional Text", "## Promotional Text (170 chars max)")
    \o Body(dev, "Promotional Text", <<"", "Chat " \o EM_DASH \o " faster.", "">>)
    \o Heading(dev, "Full Description", "## Full Description (4000 chars max)")
    \o Body(dev, "Full Description", <<"# Overview", "", "**Foo** is a *native* client.">>)
    \o Heading(dev, "Keywords", "## Keywords (100 chars max)")
    \o Body(dev, "Keywords", <<"ai,chat">>)
    \o Heading(dev, "What's New", "## What's New in 1.0")
    \o Body(dev, "What's New", <<"- Fixes", "">>)
    \o Heading(dev, "URLs", "## URLs")
    \o Bullet(dev, "Marketing URL",
              IF "empty Marketing URL" \in dev THEN "- **Marketing URL** < >"
              ELSE "- **Marketing URL** <https://a.io>")
    \o Bullet(dev, "Support URL", "- **Support URL** [Help](https://a.io/s).")
    \o Bullet(dev, "Privacy Policy URL", "- **Privacy Policy URL** a.io/p (web)")
    \o ReviewLines(dev)

Document(dev) == Join(DocumentLines(dev), "\n") \o "\n"

\* the sets of at most k deviations
RECURSIVE UpTo(_)
UpTo(k) ==
    IF k = 0 THEN {{}}
    ELSE UpTo(k - 1) \cup {dev \cup {d} : dev \in UpTo(k - 1), d \in Deviations}

\* the deviation sets Init draws from: no label both left out and bare, and a
\* missing source file has no content to deviate
Shapes ==
    {dev \in UpTo(MaxDeviations) :
        /\ ("no source file" \in dev => dev = {"no source file"})
        /\ \A f \in Range(quick_ref_fields) \cup Range(url_fields) :
              ~(("no " \o f) \in dev /\ ("bare " \o f) \in dev)
        /\ ~("no Review Information" \in dev /\ "prose Review Information" \in dev)
        /\ ~("no Contact Name" \in dev /\ "single Contact Name" \in dev)
        /\ ~("no Marketing URL" \in dev /\ "empty Marketing URL" \in dev)}

---------------------------------------------------------------------------
(* main() of sync_app_store_metadata.py                                    *)

FnIdle == input = <<>> /\ arg = "" /\ result = <<>> /\ applied = "none"

Init ==
    /\ shape \in Shapes
    /\ exists = ("no source file" \notin shape)
    /\ text = IF exists THEN Document(shape) ELSE ""
    /\ pc = "start"
    /\ sections = <<>>
    /\ release_key = ""
    /\ quick_ref = <<>>
    /\ urls = <<>>
    /\ review_info = <<>>
    /\ fields = <<>>
    /\ files = <<>>
    /\ review_files = <<>>
    /\ cursor = 0
    /\ writes = <<>>
    /\ stderr = <<>>
    /\ stdout = <<>>
    /\ exit_code = -1
    /\ FnIdle
    /\ ScriptsIdle

\* print(msg, file=sys.stderr); return 1
Abort(msg) ==
    /\ stderr' = Append(stderr, msg)
    /\ exit_code' = 1
    /\ pc' = "done"

\* lines 154-159
ReadSource ==
    /\ pc = "start"
    /\ IF ~exists
       THEN Abort("Missing source file: " \o SOURCE) /\ UNCHANGED sections
       ELSE /\ sections' = parse_sections(text)
            /\ pc' = "sections"
            /\ UNCHANGED <<stderr, exit_code>>
    /\ UNCHANGED <<exists, text, shape, release_key, quick_ref, urls, review_info,
                   fields, files, review_files, cursor, writes, stdout>>
    /\ UNCHANGED fnVars
    /\ UNCHANGED <<scanVars, genVars>>

\* a variant that keeps only the first missing section
MissingSectionsFirstOnly(secs) ==
    LET idx == {i \in 1..Len(required_sections) : ~DictHas(secs, required_sections[i])}
    IN  IF idx = {} THEN <<>> ELSE <<required_sections[MinOf(idx)]>>

\* missing_sections (line 168)
MissingSections(secs) ==
    AtIndices(required_sections,
              {i \in 1..Len(required_sections) : ~DictHas(secs, required_sections[i])})

\* lines 161-171
CheckSections ==
    /\ pc = "sections"
    /\ IF MissingSections(sections) # <<>>
       THEN Abort("Missing sections: " \o Join(MissingSections(sections), ", "))
       ELSE pc' = "release" /\ UNCHANGED <<stderr, exit_code>>
    /\ UNCHANGED <<exists, text, shape, sections, release_key, quick_ref, urls,
                   review_info, fields, files, review_files, cursor, writes, stdout>>
    /\ UNCHANGED fnVars
    /\ UNCHANGED <<scanVars, genVars>>

\* next((key for key in sections if key.startswith("What's New in ")), None)
ReleaseKey(secs) ==
    LET hits == {i \in 1..Len(secs) : StartsWith(secs[i][1], "What's New in ")}
    IN  IF hits = {} THEN "" ELSE secs[MinOf(hits)][1]

\* lines 173-181
FindReleaseNotes ==
    /\ pc = "release"
    /\ IF ReleaseKey(sections) = ""
       THEN /\ Abort("Missing release notes section (expected 'What's New in X.Y.Z')")
            /\ UNCHANGED <<release_key, quick_ref, urls, review_info>>
       ELSE /\ release_key' = ReleaseKey(sections)
            /\ quick_ref' = parse_labeled_bullets(DictGet(sections, "Quick Reference"))
            /\ urls' = parse_labeled_bullets(DictGet(sections, "URLs"))
            /\ review_info' = parse_labeled_bullets(SectionLines(sections, "Review Information"))
            /\ pc' = "quick_ref"
            /\ UNCHANGED <<stderr, exit_code>>
    /\ UNCHANGED <<exists, text, shape, sections, fields, files, review_files,
                   cursor, writes, stdout>>
    /\ UNCHANGED fnVars
    /\ UNCHANGED <<scanVars, genVars>>

\* lines 183-190
RequireQuickRef ==
    /\ pc = "quick_ref"
    /\ IF FirstMissing(quick_ref, quick_ref_fields) # ""
       THEN /\ Abort("Missing Quick Reference field: "
                     \o FirstMissing(quick_ref, quick_ref_fields))
            /\ UNCHANGED fields
       ELSE /\ fields' = <<<<"name", require(quick_ref, "Name")>>,
                           <<"subtitle", require(quick_ref, "Subtitle")>>,
                           <<"primary_category", require(quick_ref, "Primary Category")>>,
                           <<"secondary_category", require(quick_ref, "Secondary Category")>>>>
            /\ pc' = "urls"
            /\ UNCHANGED <<stderr, exit_code>>
    /\ UNCHANGED <<exists, text, shape, sections, release_key, quick_ref, urls,
                   review_info, files, review_files, cursor, writes, stdout>>
    /\ UNCHANGED fnVars
    /\ UNCHANGED <<scanVars, genVars>>

\* files (lines 200-212)
Files(secs, rkey, fld) ==
    <<<<"name.txt", asciiize(DictGet(fld, "name"))>>,
      <<"subtitle.txt", asciiize(DictGet(fld, "subtitle"))>>,
      <<"promotional_text.txt", normalize_plain(DictGet(secs, "Promotional Text"))>>,
      <<"description.txt", normalize_markdown(DictGet(secs, "Full Description"))>>,
      <<"keywords.txt", normalize_plain(DictGet(secs, "Keywords"))>>,
      <<"release_notes.txt", normalize_markdown(DictGet(secs, rkey))>>,
      <<"marketing_url.txt", asciiize(DictGet(fld, "marketing_url"))>>,
      <<"support_url.txt", asciiize(DictGet(fld, "support_url"))>>,
      <<"privacy_url.txt", asciiize(DictGet(fld, "privacy_url"))>>,
      <<"primary_category.txt", asciiize(DictGet(fld, "primary_category"))>>,
      <<"secondary_category.txt", asciiize(DictGet(fld, "secondary_category"))>>>>

\* lines 192-214
RequireUrls ==
    /\ pc = "urls"
    /\ IF FirstMissing(urls, url_fields) # ""
       THEN /\ Abort("Missing URL field: " \o FirstMissing(urls, url_fields))
            /\ UNCHANGED <<fields, files, cursor>>
       ELSE /\ fields' = fields \o
                   <<<<"marketing_url", extract_url(require(urls, "Marketing URL"))>>,
                     <<"support_url", extract_url(require(urls, "Support URL"))>>,
                     <<"privacy_url", extract_url(require(urls, "Privacy Policy URL"))>>>>
            /\ files' = Files(sections, release_key, fields')
            /\ cursor' = 1
            /\ pc' = "write"
            /\ UNCHANGED <<stderr, exit_code>>
    /\ UNCHANGED <<exists, text, shape, sections, release_key, quick_ref, urls,
                   review_info, review_files, writes, stdout>>
    /\ UNCHANGED fnVars
    /\ UNCHANGED <<scanVars, genVars>>

\* a variant that writes the content without the final newline
WriteTextNoNewline(dir, filename, content) ==
    [dir |-> dir, name |-> filename, content |-> Strip(content)]

\* path.write_text(f"{content.strip()}\n")
WriteText(dir, filename, content) ==
    [dir |-> dir, name |-> filename, content |-> Strip(content) \o "\n"]

\* one pass of the loop of lines 216-221
WriteFile ==
    /\ pc = "write"
    /\ cursor <= Len(files)
    /\ IF files[cursor][2] = ""
       THEN /\ Abort("Missing content for " \o files[cursor][1])
            /\ UNCHANGED <<writes, cursor>>
       ELSE /\ writes' = Append(writes, WriteText(OUTPUT_DIR, files[cursor][1], files[cursor][2]))
            /\ cursor' = cursor + 1
            /\ UNCHANGED <<pc, stderr, exit_code>>
    /\ UNCHANGED <<exists, text, shape, sections, release_key, quick_ref, urls,
                   review_info, fields, files, review_files, stdout>>
    /\ UNCHANGED fnVars
    /\ UNCHANGED <<scanVars, genVars>>

\* review_info.get(key), "" when the key is absent
InfoGet(info, key) == IF DictHas(info, key) THEN DictGet(info, key) ELSE ""

\* notes (lines 237-254)
ReviewNotes(secs, info) ==
    LET review_section == SectionLines(secs, "Review Information")
        demo_account == InfoGet(info, "Demo Account")
        availability == InfoGet(info, "Availability")
        demo_all     == extract_subsection(review_section, "Demo Content Provided")
        demo_content == AtIndices(demo_all,
                                  {i \in 1..Len(demo_all) : ~IsNoteLine(demo_all[i])})
        walkthrough  == extract_subsection(review_section, "Reviewer Walkthrough")
        note_lines   == extract_note_lines(review_section)
        notes_parts  ==
            (IF demo_account # ""
             THEN <<"Demo account: " \o strip_markdown(demo_account)>> ELSE <<>>)
            \o (IF availability # ""
                THEN <<"Availability: " \o strip_markdown(availability)>> ELSE <<>>)
            \o (IF demo_content # <<>>
                THEN <<"Demo content provided:\n" \o normalize_markdown(demo_content)>>
                ELSE <<>>)
            \o (IF walkthrough # <<>>
                THEN <<"Reviewer walkthrough:\n" \o normalize_markdown(walkthrough)>>
                ELSE <<>>)
            \o (IF note_lines # <<>> THEN <<Join(note_lines, "\n")>> ELSE <<>>)
    IN  Strip(Join(notes_parts, "\n\n"))

\* review_files (lines 233-263), the three contact fields being there
ReviewFiles(secs, info) ==
    LET names == split_name(strip_markdown(require(info, "Contact Name")))
        email == extract_email(require(info, "Contact Email"))
        phone == extract_phone(strip_markdown(require(info, "Contact Phone")))
        notes == ReviewNotes(secs, info)
    IN  <<<<"first_name.txt", asciiize(names[1])>>,
          <<"last_name.txt", asciiize(names[2])>>,
          <<"email_address.txt", asciiize(email)>>,
          <<"phone_number.txt", asciiize(phone)>>>>
        \o (IF notes # "" THEN <<<<"notes.txt", asciiize(notes)>>>> ELSE <<>>)

\* a variant that runs the review block whatever was parsed
ReviewGivenAlways(info) == TRUE

\* if review_info: (line 224)
ReviewGiven(info) == info # <<>>

\* lines 223-266, once the loop of lines 216-221 has ended
BuildReview ==
    /\ pc = "write"
    /\ cursor > Len(files)
    /\ IF ReviewGiven(review_info) /\ FirstMissing(review_info, contact_fields) # ""
       THEN /\ Abort("Missing Review Information field: "
                     \o FirstMissing(review_info, contact_fields))
            /\ UNCHANGED <<review_files, cursor>>
       ELSE /\ review_files' = IF ReviewGiven(review_info)
                               THEN ReviewFiles(sections, review_info) ELSE <<>>
            /\ cursor' = 1
            /\ pc' = "write_review"
            /\ UNCHANGED <<stderr, exit_code>>
    /\ UNCHANGED <<exists, text, shape, sections, release_key, quick_ref, urls,
                   review_info, fields, files, writes, stdout>>
    /\ UNCHANGED fnVars
    /\ UNCHANGED <<scanVars, genVars>>

\* one pass of the loop of lines 267-272
WriteReviewFile ==
    /\ pc = "write_review"
    /\ cursor <= Len(review_files)
    /\ IF review_files[cursor][2] = ""
       THEN /\ Abort("Missing content for review information " \o review_files[cursor][1])
            /\ UNCHANGED <<writes, cursor>>
       ELSE /\ writes' = Append(writes, WriteText(REVIEW_INFO_DIR, review_files[cursor][1],
                                                  review_files[cursor][2]))
            /\ cursor' = cursor + 1
            /\ UNCHANGED <<pc, stderr, exit_code>>
    /\ UNCHANGED <<exists, text, shape, sections, release_key, quick_ref, urls,
                   review_info, fields, files, review_files, stdout>>
    /\ UNCHANGED fnVars
    /\ UNCHANGED <<scanVars, genVars>>

\* sorted(keys): the keys in ascending order of Python's string comparison
RECURSIVE StrLess(_, _)
StrLess(a, b) ==
    IF a = "" THEN b # ""
    ELSE IF b = "" THEN FALSE
    ELSE IF Char(a, 1) = Char(b, 1) THEN StrLess(Tail(a), Tail(b))
    ELSE LET order == ".0123456789_abcdefghijklmnopqrstuvwxyz"
         IN  FindFrom(order, Char(a, 1), 1) < FindFrom(order, Char(b, 1), 1)

SortedKeys(d) ==
    LET keys == Range(DictKeys(d))
        kth(k) == CHOOSE a \in keys : Cardinality({b \in keys : StrLess(b, a)}) = k - 1
    IN  [k \in 1..Cardinality(keys) |-> kth(k)]

\* lines 274-279
Finish ==
    /\ pc = "write_review"
    /\ cursor > Len(review_files)
    /\ stdout' = stdout
                 \o (IF review_files # <<>>
                     THEN <<"Wrote fastlane review information files: "
                            \o Join(SortedKeys(review_files), ", ")>>
                     ELSE <<>>)
                 \o <<"Wrote fastlane metadata files: " \o Join(SortedKeys(files), ", ")>>
    /\ exit_code' = 0
    /\ pc' = "done"
    /\ UNCHANGED <<exists, text, shape, sections, release_key, quick_ref, urls,
                   review_info, fields, files, review_files, cursor, writes, stderr>>
    /\ UNCHANGED fnVars
    /\ UNCHANGED <<scanVars, genVars>>

Next ==
    \/ ReadSource
    \/ CheckSections
    \/ FindReleaseNotes
    \/ RequireQuickRef
    \/ RequireUrls
    \/ WriteFile
    \/ BuildReview
    \/ WriteReviewFile
    \/ Finish

Spec == Init /\ [][Next]_vars

---------------------------------------------------------------------------
(* What the document, as it was built, lacks                               *)

\* the required sections the document leaves out, in the order of the list
AbsentSections ==
    AtIndices(required_sections,
              {i \in 1..Len(required_sections) : ("no " \o required_sections[i]) \in shape})

\* the bullet of label f is left out of the document or has no body
Lacks(f) ==
    \/ ("no " \o f) \in shape
    \/ ("bare " \o f) \in shape
    \/ (f \in Range(contact_fields) /\ "prose Review Information" \in shape)

\* the first label of keys that the document lacks; "" when it has them all
FirstLacking(keys) ==
    LET bad == {i \in 1..Len(keys) : Lacks(keys[i])}
    IN  IF bad = {} THEN "" ELSE keys[MinOf(bad)]

\* the message of the first validation stage the document fails; "" when
\* it passes the three stages
ValidationError ==
    IF AbsentSections # <<>>
    THEN "Missing sections: " \o Join(AbsentSections, ", ")
    ELSE IF "no What's New" \in shape
    THEN "Missing release notes section (expected 'What's New in X.Y.Z')"
    ELSE IF FirstLacking(quick_ref_fields) # ""
    THEN "Missing Quick Reference field: " \o FirstLacking(quick_ref_fields)
    ELSE IF FirstLacking(url_fields) # ""
    THEN "Missing URL field: " \o FirstLacking(url_fields)
    ELSE ""

\* the writes of the run into dir
WritesTo(dir) == {i \in 1..Len(writes) : writes[i].dir = dir}

\* the loop of lines 216-221 has written every primary file
PrimaryWritten == files # <<>> /\ Cardinality(WritesTo(OUTPUT_DIR)) = Len(files)

---------------------------------------------------------------------------
(* Claims on main()                                                        *)

\* C1: in every run that ends with exit code 1, no output file has been
\* written at any point of the run.
C1_NoWriteInFailedRun == exit_code = 1 => writes = <<>>

\* C2: when one or more required sections are absent from the document, no
\* output file is ever written, and the run ends with exit code 1 and one
\* message that names every absent required section, in the order of the list.
C2_AllMissingSectionsNamed ==
    (exists /\ AbsentSections # <<>>) =>
        /\ writes = <<>>
        /\ exit_code # 0
        /\ pc = "done" =>
              /\ exit_code = 1
              /\ stderr = <<"Missing sections: " \o Join(AbsentSections, ", ")>>

C2_Witness ==
    /\ pc = "done"
    /\ shape = {"no Promotional Text", "no URLs"}
    /\ stderr = <<"Missing sections: Promotional Text, URLs">>
    /\ exit_code = 1

\* C3: validation runs in the order sections, release notes, Quick Reference
\* fields (Name, Subtitle, Primary Category, Secondary Category), URL fields
\* (Marketing URL, Support URL, Privacy Policy URL): a run on a document that
\* fails some stage ends with exit code 1 and exactly the message of the
\* first stage it fails, which for a field names the first field that is
\* absent or has no body; a document that fails none reaches the write loop.
C3_ValidationOrder ==
    (pc = "done" /\ exists) =>
        IF ValidationError # ""
        THEN exit_code = 1 /\ stderr = <<ValidationError>> /\ files = <<>>
        ELSE files # <<>>

C3_Witness ==
    /\ pc = "done"
    /\ shape = {"bare Secondary Category", "no Marketing URL"}
    /\ stderr = <<"Missing Quick Reference field: Secondary Category">>
    /\ exit_code = 1

\* C4 as claimed: whenever the Review Information section is present,
\* whatever its contents, a run that gets to the review block with a contact
\* field absent or blank ends with exit code 1 naming the first such field.
C4_ReviewWheneverSectionPresent ==
    (/\ pc = "done"
     /\ PrimaryWritten
     /\ "no Review Information" \notin shape
     /\ FirstLacking(contact_fields) # "") =>
        /\ exit_code = 1
        /\ stderr = <<"Missing Review Information field: " \o FirstLacking(contact_fields)>>

\* C4 as amended: the review block is processed exactly when the Review
\* Information section holds at least one labeled bullet.  A run that has
\* written the primary files ends with exit code 0 and no review file when
\* the section is absent or holds no labeled bullet; when it holds one, the
\* first of Contact Name, Contact Email, Contact Phone that is absent or has
\* no body ends the run with exit code 1 naming it, no review file written.
C4_ReviewWhenBulletsPresent ==
    (pc = "done" /\ PrimaryWritten) =>
        IF "no Review Information" \in shape \/ "prose Review Information" \in shape
        THEN /\ exit_code = 0
             /\ stderr = <<>>
             /\ review_info = <<>>
             /\ WritesTo(REVIEW_INFO_DIR) = {}
        ELSE /\ review_info # <<>>
             /\ IF FirstLacking(contact_fields) # ""
                THEN /\ exit_code = 1
                     /\ stderr = <<"Missing Review Information field: "
                                   \o FirstLacking(contact_fields)>>
                     /\ WritesTo(REVIEW_INFO_DIR) = {}
                ELSE review_files # <<>>

C4_Witness ==
    /\ pc = "done"
    /\ shape = {"prose Review Information"}
    /\ DictHas(sections, "Review Information")
    /\ PrimaryWritten
    /\ exit_code = 0
    /\ WritesTo(REVIEW_INFO_DIR) = {}

\* C10 as claimed: a document whose Quick Reference section consists of
\* exactly the Name (Foo) and Subtitle (Bar) bullets, the other required
\* sections present and non-empty, has name.txt written with "Foo\n".
C10_NameWrittenFromTwoBullets ==
    (pc = "done" /\ shape = {"no Primary Category", "no Secondary Category"}) =>
        \E i \in 1..Len(writes) :
            writes[i] = [dir |-> OUTPUT_DIR, name |-> "name.txt", content |-> "Foo\n"]

\* C10 as amended: a document whose Quick Reference section holds the Name
\* (Foo) and Subtitle (Bar) bullets and also the Primary Category and
\* Secondary Category bullets, with the required sections, the release notes
\* section and the three URL fields present, has name.txt written, first and
\* once, with exactly "Foo\n"; with the Name and Subtitle bullets alone the
\* run ends with exit code 1 and nothing written.
C10_NameWrittenWhenFieldsComplete ==
    (pc = "done" /\ exists) =>
        IF ValidationError = ""
        THEN /\ writes # <<>>
             /\ writes[1] = [dir |-> OUTPUT_DIR, name |-> "name.txt", content |-> "Foo\n"]
             /\ \A i \in 2..Len(writes) : writes[i].name # "name.txt"
        ELSE writes = <<>>

C10_Witness ==
    /\ pc = "done"
    /\ shape = {}
    /\ exit_code = 0
    /\ writes[1] = [dir |-> OUTPUT_DIR, name |-> "name.txt", content |-> "Foo\n"]

\* the eleven primary output files
PrimaryNames ==
    {"name.txt", "subtitle.txt", "promotional_text.txt", "description.txt",
     "keywords.txt", "release_notes.txt", "marketing_url.txt", "support_url.txt",
     "privacy_url.txt", "primary_category.txt", "secondary_category.txt"}

\* content is a text that is not empty and has no whitespace at either end,
\* followed by one newline
WellFormed(content) ==
    /\ Len(content) >= 2
    /\ Slice(content, Len(content), Len(content)) = "\n"
    /\ Strip(Slice(content, 1, Len(content) - 1)) = Slice(content, 1, Len(content) - 1)

\* C14 as claimed: whenever main ends with exit code 0, each of the eleven
\* primary files has been written exactly once, and the content of each is a
\* non-empty text without leading or trailing whitespace followed by a single
\* newline.
C14_ElevenFilesWellFormed ==
    (pc = "done" /\ exit_code = 0) =>
        /\ \A f \in PrimaryNames :
               Cardinality({i \in WritesTo(OUTPUT_DIR) : writes[i].name = f}) = 1
        /\ \A i \in WritesTo(OUTPUT_DIR) :
               writes[i].name \in PrimaryNames /\ WellFormed(writes[i].content)

\* C14, what the code does: whenever main ends with exit code 0, each of the
\* eleven primary files has been written exactly once, its content stripped
\* and followed by a single newline; the content of a URL file may be the
\* newline alone.
C14_ElevenFilesWritten ==
    (pc = "done" /\ exit_code = 0) =>
        /\ \A f \in PrimaryNames :
               Cardinality({i \in WritesTo(OUTPUT_DIR) : writes[i].name = f}) = 1
        /\ \A i \in WritesTo(OUTPUT_DIR) :
               /\ writes[i].name \in PrimaryNames
               /\ \/ WellFormed(writes[i].content)
                  \/ /\ writes[i].content = "\n"
                     /\ writes[i].name = "marketing_url.txt"
                     /\ "empty Marketing URL" \in shape

\* C14: a run that ends with exit code 0 and has written a file of one newline
C14_BlankFileWritten ==
    /\ pc = "done" /\ exit_code = 0
    /\ shape = {"empty Marketing URL"}
    /\ \E i \in WritesTo(OUTPUT_DIR) :
           writes[i] = [dir |-> OUTPUT_DIR, name |-> "marketing_url.txt", content |-> "\n"]

---------------------------------------------------------------------------
(* parse_sections applied to documents built line by line                  *)

\* how many lines a document handed to parse_sections may have
MaxSectionLines == 3

\* main() stands still in the specifications of the single functions
MainIdle ==
    /\ exists = FALSE /\ text = "" /\ shape = {} /\ pc = "off"
    /\ sections = <<>> /\ release_key = "" /\ quick_ref = <<>> /\ urls = <<>>
    /\ review_info = <<>> /\ fields = <<>> /\ files = <<>> /\ review_files = <<>>
    /\ cursor = 0 /\ writes = <<>> /\ stderr = <<>> /\ stdout = <<>>
    /\ exit_code = -1

\* the sequences over S of length at most n
RECURSIVE SeqsUpTo(_, _)
SeqsUpTo(S, n) ==
    IF n = 0 THEN {<<>>}
    ELSE SeqsUpTo(S, n - 1)
         \cup {Append(s, x) : s \in {q \in SeqsUpTo(S, n - 1) : Len(q) = n - 1}, x \in S}

\* a heading line is "## " pad base paren tail, a text line is text
HeadingLine(pad, base, paren, tail) ==
    [kind |-> "heading", pad |-> pad, base |-> base, paren |-> paren, tail |-> tail,
     text |-> ""]

TextLine(s) ==
    [kind |-> "text", pad |-> "", base |-> "", paren |-> "", tail |-> "", text |-> s]

SectionLinePool ==
    {HeadingLine("", "Notes", "", ""),                 \* ## Notes
     HeadingLine("", "Notes", " (draft)", ""),         \* ## Notes (draft)
     HeadingLine("", "Notes", "(draft)", ""),          \* ## Notes(draft)
     HeadingLine("  ", "URLs", "  (a)", " (b)  "),     \* ##   URLs  (a) (b)
     HeadingLine(" ", "", "(beta)", " Keys"),          \* ##  (beta) Keys
     TextLine("intro"),
     TextLine(""),
     TextLine("### Notes")}

RenderSectionLine(d) ==
    IF d.kind = "heading" THEN "## " \o d.pad \o d.base \o d.paren \o d.tail ELSE d.text

\* the document: every line with its line end
RenderDocument(ds) ==
    Join([i \in 1..Len(ds) |-> RenderSectionLine(ds[i]) \o "\n"], "")

InitSections ==
    /\ MainIdle
    /\ ScriptsIdle
    /\ input \in SeqsUpTo(SectionLinePool, MaxSectionLines)
    /\ arg = RenderDocument(input)
    /\ result = <<>>
    /\ applied = "none"

ApplyParseSections ==
    /\ applied = "none"
    /\ pc = "off"
    /\ result' = parse_sections(arg)
    /\ applied' = "parse_sections"
    /\ UNCHANGED <<input, arg>>
    /\ UNCHANGED mainVars
    /\ UNCHANGED <<scanVars, genVars>>

NextSections == ApplyParseSections

SpecSections == InitSections /\ [][NextSections]_vars

\* the parenthetical of a heading follows a space within the heading text
SpacedParen(d) == d.base # "" /\ d.paren # "" /\ Char(d.paren, 1) = " "

\* the label a heading line is filed under, from the parts it was built of:
\* the text before a parenthesis that follows a space, else the whole text
BuiltLabel(d) ==
    IF SpacedParen(d) THEN Strip(d.base)
    ELSE Strip(d.pad \o d.base \o d.paren \o d.tail)

HeadingsOf(ds) == {i \in 1..Len(ds) : ds[i].kind = "heading"}

\* the heading that line i of the document stands under (0 when none does)
HeadingOver(ds, i) ==
    LET above == {h \in HeadingsOf(ds) : h < i}
    IN  IF above = {} THEN 0 ELSE MaxOf(above)

\* the text lines standing under some heading of label l, in document order
LinesUnder(ds, l) ==
    LET idx == {i \in 1..Len(ds) : /\ ds[i].kind = "text"
                                   /\ HeadingOver(ds, i) # 0
                                   /\ BuiltLabel(ds[HeadingOver(ds, i)]) = l}
    IN  AtIndices([i \in 1..Len(ds) |-> ds[i].text], idx)

\* the text lines between the last heading of label l and the next heading
LinesUnderLast(ds, l) ==
    LET last == MaxOf({h \in HeadingsOf(ds) : BuiltLabel(ds[h]) = l})
        idx  == {i \in 1..Len(ds) : ds[i].kind = "text" /\ HeadingOver(ds, i) = last}
    IN  AtIndices([i \in 1..Len(ds) |-> ds[i].text], idx)

BuiltLabels(ds) == {BuiltLabel(ds[h]) : h \in HeadingsOf(ds)}

Annotated(ds) == {h \in HeadingsOf(ds) : ds[h].paren # ""}

\* C6 as claimed: a heading with a parenthetical is filed under the heading
\* text with the parenthetical and everything after it removed, trimmed.
C6_CutAtParenthetical ==
    applied = "parse_sections" =>
        \A h \in Annotated(input) :
            input[h].base # "" => DictHas(result, Strip(input[h].pad \o input[h].base))

\* C6 as amended: the heading text is cut at the first " (", a space followed
\* by an opening parenthesis, of the trimmed text, and trimmed.  A heading
\* whose parenthetical follows a space is filed under the text before it; a
\* parenthetical that follows no space, or opens the heading, stays in the
\* label.
C6_CutAtSpaceParen ==
    applied = "parse_sections" =>
        \A h \in Annotated(input) :
            /\ DictHas(result, BuiltLabel(input[h]))
            /\ SpacedParen(input[h]) =>
                   /\ BuiltLabel(input[h]) = Strip(input[h].base)
                   /\ ~Contains(BuiltLabel(input[h]), "(")
            /\ ~SpacedParen(input[h]) =>
                   /\ Contains(BuiltLabel(input[h]), input[h].paren)
                   /\ ~DictHas(result, Strip(input[h].pad \o input[h].base))
                      \/ \E g \in HeadingsOf(input) :
                             BuiltLabel(input[g]) = Strip(input[h].pad \o input[h].base)

C6_Witness ==
    /\ applied = "parse_sections"
    /\ arg = "##   URLs  (a) (b)  \nintro\n## Notes(draft)\n"
    /\ result = <<<<"URLs", <<"intro">>>>, <<"Notes(draft)", <<>>>>>>

---------------------------------------------------------------------------
(* parse_labeled_bullets applied to lists of lines                         *)

\* how many lines a list handed to parse_labeled_bullets may have
MaxBulletLines == 3

\* a bullet is  lead "-" gap1 "**" lpad core inner colon rpad "**" gap2 value trail
BulletLine(lead, gap1, lpad, core, inner, colon, rpad, gap2, value, trail) ==
    [kind |-> "bullet", lead |-> lead, gap1 |-> gap1, lpad |-> lpad, core |-> core,
     inner |-> inner, colon |-> colon, rpad |-> rpad, gap2 |-> gap2,
     value |-> value, trail |-> trail, text |-> ""]

OtherLine(s) ==
    [kind |-> "other", lead |-> "", gap1 |-> "", lpad |-> "", core |-> "",
     inner |-> "", colon |-> "", rpad |-> "", gap2 |-> "", value |-> "",
     trail |-> "", text |-> s]

BulletLinePool ==
    {BulletLine("", " ", "", "Name", "", "", "", " ", "Foo", ""),            \* - **Name** Foo
     BulletLine("  ", "  ", "", "Name", "", ":", "", "\t ", "Foo Bar", "  "),
     BulletLine("", " ", " ", "Size", "", "::", " ", " ", "10", ""),         \* - ** Size:: ** 10
     BulletLine("", " ", "", "Size", " ", ":", "", " ", "**9**", ""),        \* - **Size :** **9**
     BulletLine("", " ", "", "Name", "", "", "", "", "", ""),                \* - **Name**
     BulletLine("", " ", "", "Size", "", ":", "", "", "", "  "),             \* - **Size:**
     OtherLine("* **Name** x"),
     OtherLine("- *Name* y"),
     OtherLine("- **Name**: z"),
     OtherLine("Name: w")}

RenderBulletLine(d) ==
    IF d.kind = "other" THEN d.text
    ELSE d.lead \o "-" \o d.gap1 \o "**" \o d.lpad \o d.core \o d.inner \o d.colon
         \o d.rpad \o "**" \o d.gap2 \o d.value \o d.trail

InitBullets ==
    /\ MainIdle
    /\ ScriptsIdle
    /\ \E ds \in SeqsUpTo(BulletLinePool, MaxBulletLines) :
           input = [i \in 1..Len(ds) |-> [line |-> RenderBulletLine(ds[i]), built |-> ds[i]]]
    /\ arg = ""
    /\ result = <<>>
    /\ applied = "none"

ApplyParseLabeledBullets ==
    /\ applied = "none"
    /\ pc = "off"
    /\ result' = parse_labeled_bullets([i \in 1..Len(input) |-> input[i].line])
    /\ applied' = "parse_labeled_bullets"
    /\ UNCHANGED <<input, arg>>
    /\ UNCHANGED mainVars
    /\ UNCHANGED <<scanVars, genVars>>

NextBullets == ApplyParseLabeledBullets

SpecBullets == InitBullets /\ [][NextBullets]_vars

\* the field a bullet names, from the parts it was built of: the text between
\* the asterisks trimmed, then without its trailing colons (what stood before
\* the colons stays as it is)
BuiltField(d) == IF d.colon = "" THEN d.core ELSE d.core \o d.inner

\* the bullets of the list that have a body after the label
WithBody(ds) == {i \in 1..Len(ds) : ds[i].built.kind = "bullet" /\ ds[i].built.value # ""}

\* the bullets of the list that have no body after the label
Bare(ds) == {i \in 1..Len(ds) : ds[i].built.kind = "bullet" /\ ds[i].built.value = ""}

\* C7: the mapping holds exactly the fields of the lines "- **X** Y" with a
\* body Y, each field named by X trimmed and without its trailing colon, its
\* value the trimmed Y of the last such line; lines of other shapes
\* contribute nothing.
C7_LastBulletWins ==
    applied = "parse_labeled_bullets" =>
        /\ Range(DictKeys(result)) = {BuiltField(input[i].built) : i \in WithBody(input)}
        /\ Len(result) = Cardinality({BuiltField(input[i].built) : i \in WithBody(input)})
        /\ \A i \in WithBody(input) :
               LET same == {j \in WithBody(input) :
                                BuiltField(input[j].built) = BuiltField(input[i].built)}
               IN  DictGet(result, BuiltField(input[i].built))
                       = input[MaxOf(same)].built.value

C7_Witness ==
    /\ applied = "parse_labeled_bullets"
    /\ Len(input) = 3
    /\ input[1].line = "- **Name** Foo"
    /\ input[2].line = "- **Name**: z"
    /\ input[3].line = "  -  **Name:**\t Foo Bar  "
    /\ result = <<<<"Name", "Foo Bar">>>>

\* C8 as claimed: a labeled bullet with no body after the label yields the
\* empty string for its field, not an absent field.
C8_BareBulletYieldsEmpty ==
    applied = "parse_labeled_bullets" =>
        \A i \in Bare(input) :
            /\ DictHas(result, BuiltField(input[i].built))
            /\ (\A j \in WithBody(input) :
                    j > i => BuiltField(input[j].built) # BuiltField(input[i].built))
                   => DictGet(result, BuiltField(input[i].built)) = ""

---------------------------------------------------------------------------
(* normalize_plain and normalize_markdown applied once and again           *)

\* how many lines a text handed to the normalizers may have
MaxNormalizeLines == 3

NormalizeLinePool ==
    {"", "x", "# x", "# # x", " # x", " **", "*a* **b*", "*# x*",
     EM_DASH \o "y" \o NBSP, "z" \o ELLIPSIS \o "  "}

InitNormalize ==
    /\ MainIdle
    /\ ScriptsIdle
    /\ input \in SeqsUpTo(NormalizeLinePool, MaxNormalizeLines)
    /\ arg = ""
    /\ result = <<>>
    /\ applied = "none"

\* normalize_plain on the lines, then on the lines of what it returned
ApplyNormalizePlain ==
    /\ applied = "none"
    /\ pc = "off"
    /\ LET once == normalize_plain(input)
       IN  result' = <<once, normalize_plain(SplitLines(once))>>
    /\ applied' = "normalize_plain"
    /\ UNCHANGED <<input, arg>>
    /\ UNCHANGED mainVars
    /\ UNCHANGED <<scanVars, genVars>>

\* normalize_markdown on the lines, then on the lines of what it returned
ApplyNormalizeMarkdown ==
    /\ applied = "none"
    /\ pc = "off"
    /\ LET once == normalize_markdown(input)
       IN  result' = <<once, normalize_markdown(SplitLines(once))>>
    /\ applied' = "normalize_markdown"
    /\ UNCHANGED <<input, arg>>
    /\ UNCHANGED mainVars
    /\ UNCHANGED <<scanVars, genVars>>

NextNormalize == ApplyNormalizePlain \/ ApplyNormalizeMarkdown

SpecNormalize == InitNormalize /\ [][NextNormalize]_vars

\* C9 as claimed: both normalizers are idempotent; normalizing the lines of
\* a normalized text returns that text, for every input text.
C9_NormalizeIdempotent ==
    applied \in {"normalize_plain", "normalize_markdown"} => result[2] = result[1]

---------------------------------------------------------------------------
(* scripts/secret_scan.py                                                  *)

\* the non-ASCII characters of the scanner's messages, each as one ASCII
\* character
WHITE_CHECK_MARK == "+"
CROSS_MARK == "x"
RIGHTWARDS_ARROW == ">"

SCAN_EXTENSIONS ==
    {".swift", ".m", ".mm", ".plist", ".json", ".yaml", ".yml", ".sh", ".py",
     ".env", ".xcconfig"}

IGNORE_PATHS == {"scripts/secret_scan.py"}

Alnum == Letters \cup Digits

\* [A-Za-z0-9_\-]
TokenClass == Alnum \cup {"_", "-"}

\* the last index of s that holds c (0 if none)
RFind(s, c) == MaxOf({i \in 1..Len(s) : Char(s, i) = c} \cup {0})

\* Path.name: the last component of the path
PathName(path) == Slice(path, RFind(path, "/") + 1, Len(path))

\* Path.suffix: from the last dot of the name on, unless the dot opens or
\* closes the name
PathSuffix(path) ==
    LET name == PathName(path)
        i    == RFind(name, ".")
    IN  IF i > 1 /\ i < Len(name) THEN Slice(name, i, Len(name)) ELSE ""

\* the three tests of iter_candidate_files on one entry of rglob("*")
IsCandidate(e) ==
    /\ e.is_file
    /\ e.path \notin IGNORE_PATHS
    /\ ToLower(PathSuffix(e.path)) \in SCAN_EXTENSIONS

\* text mode of read_text: "\r\n" and "\r" are read as "\n"
UniversalNewlines(bytes) == Replace(Replace(bytes, "\r\n", "\n"), "\r", "\n")

\* the first index >= i of s whose character is not in cs (Len(s)+1 if none)
RECURSIVE RunEnd(_, _, _)
RunEnd(s, i, cs) ==
    IF i > Len(s) \/ Char(s, i) \notin cs THEN i ELSE RunEnd(s, i + 1, cs)

\* sk-[A-Za-z0-9]{24,} matched at index i of s: the index of the last
\* character of the match (0 when there is no match at i)
OpenAIKeyEnd(s, i) ==
    LET stop == RunEnd(s, i + 3, Alnum)
    IN  IF Slice(s, i, i + 2) = "sk-" /\ stop - (i + 3) >= 24 THEN stop - 1 ELSE 0

\* \s*[:=]\s*['"][A-Za-z0-9_\-]{20,} matched at index q of s
TokenTailEnd(s, q) ==
    LET c    == RunEnd(s, q, Whitespace)
        d    == RunEnd(s, c + 1, Whitespace)
        stop == RunEnd(s, d + 1, TokenClass)
    IN  IF /\ c <= Len(s) /\ Char(s, c) \in {":", "="}
           /\ d <= Len(s) /\ Char(s, d) \in {"'", "\""}
           /\ stop - (d + 1) >= 20
        THEN stop - 1 ELSE 0

\* (?i)(api|token|secret|bearer)[-_ ]?(key|token)? and the tail, matched at
\* index i of s; every way through the two optional groups that matches ends
\* at the same index
GenericTokenEnd(s, i) ==
    LET afterWord == {i + Len(w) : w \in {x \in {"api", "token", "secret", "bearer"} :
                                      /\ LowerChar(Char(s, i)) = Char(x, 1)
                                      /\ ToLower(Slice(s, i, i + Len(x) - 1)) = x}}
        afterSep  == afterWord \cup {p + 1 : p \in {x \in afterWord :
                                      x <= Len(s) /\ Char(s, x) \in {"-", "_", " "}}}
        afterKey  == afterSep \cup
                     {y[1] + Len(y[2]) :
                          y \in {x \in afterSep \X {"key", "token"} :
                                     ToLower(Slice(s, x[1], x[1] + Len(x[2]) - 1)) = x[2]}}
        ends      == {TokenTailEnd(s, q) : q \in afterKey} \ {0}
    IN  IF ends = {} THEN 0 ELSE MaxOf(ends)

\* pattern.match at index i for the pattern labelled label
PatternEnd(label, s, i) ==
    IF label = "openai_key" THEN OpenAIKeyEnd(s, i) ELSE GenericTokenEnd(s, i)

\* pattern.finditer(contents) from index pos on: the matches <<first, last>>,
\* leftmost first, none overlapping
RECURSIVE FindIter(_, _, _)
FindIter(label, s, pos) ==
    LET starts == {i \in pos..Len(s) : PatternEnd(label, s, i) > 0}
    IN  IF starts = {} THEN <<>>
        ELSE LET i == MinOf(starts)
             IN  <<<<i, PatternEnd(label, s, i)>>>>
                 \o FindIter(label, s, PatternEnd(label, s, i) + 1)

\* a variant that numbers the lines from 0
LineNumberFromZero(contents, first) ==
    Cardinality({k \in 1..(first - 1) : Char(contents, k) = "\n"})

\* contents.count("\n", 0, match.start()) + 1
LineNumber(contents, first) ==
    Cardinality({k \in 1..(first - 1) : Char(contents, k) = "\n"}) + 1

\* the findings of one pattern: (line_number, label, match.group())
PatternFindings(label, contents) ==
    LET ms == FindIter(label, contents, 1)
    IN  [k \in 1..Len(ms) |->
            <<LineNumber(contents, ms[k][1]), label,
              Slice(contents, ms[k][1], ms[k][2])>>]

SUSPICIOUS_PATTERNS == <<"openai_key", "generic_token">>

\* scan_file(path) for the entry e of the repository
scan_file(e) ==
    IF ~e.decodes THEN <<>>
    ELSE LET contents == UniversalNewlines(e.bytes)
         IN  PatternFindings(SUSPICIOUS_PATTERNS[1], contents)
             \o PatternFindings(SUSPICIOUS_PATTERNS[2], contents)

\* how many entries the scanned repository may have
MaxRepoFiles == 3

Alphabet == "abcdefghijklmNOPQRSTUVWXYZ0123456789"

\* an entry under REPO_ROOT: `before` lines of filler, each closed by eol,
\* then the line `last`; as built, it is a candidate or not and holds `keys`
\* OpenAI keys and `tokens` generic tokens, all of them in the line `last`;
\* an entry that does not decode has a byte in it that is not UTF-8
RepoEntry(path, is_file, decodes, candidate, before, eol, last, keys, tokens) ==
    [path |-> path, is_file |-> is_file, decodes |-> decodes,
     bytes |-> Join([k \in 1..before |-> "let x = 1" \o eol], "") \o last,
     candidate |-> candidate, before |-> before, keys |-> keys, tokens |-> tokens]

RepoPool ==
    {RepoEntry("App.swift", TRUE, TRUE, TRUE, 1, "\n", "", 0, 0),
     RepoEntry("App.swift", TRUE, TRUE, TRUE, 2, "\n",
               "let k = \"sk-" \o Slice(Alphabet, 1, 24) \o "\"\n", 1, 0),
     RepoEntry("cfg.JSON", TRUE, TRUE, TRUE, 0, "\n",
               "{\"k\": \"sk-" \o Slice(Alphabet, 1, 23) \o "\"}", 0, 0),
     RepoEntry("cfg.JSON", TRUE, TRUE, TRUE, 1, "\r\n",
               "sk-" \o Slice(Alphabet, 1, 30) \o "\r\n", 1, 0),
     RepoEntry("ci/run.sh", TRUE, TRUE, TRUE, 0, "\n",
               "API_KEY=\"" \o Slice(Alphabet, 1, 20) \o "\"", 0, 1),
     RepoEntry("ci/run.sh", TRUE, FALSE, TRUE, 1, "\n",
               "sk-" \o Slice(Alphabet, 1, 24), 1, 0),
     RepoEntry("k.py", TRUE, TRUE, TRUE, 3, "\n",
               "Bearer token : 'sk-" \o Slice(Alphabet, 1, 24) \o "'", 1, 1),
     RepoEntry("README.md", TRUE, TRUE, FALSE, 0, "\n",
               "sk-" \o Slice(Alphabet, 1, 24), 1, 0),
     RepoEntry("scripts/secret_scan.py", TRUE, TRUE, FALSE, 0, "\n",
               "sk-" \o Slice(Alphabet, 1, 24), 1, 0),
     RepoEntry(".env", TRUE, TRUE, FALSE, 0, "\n",
               "sk-" \o Slice(Alphabet, 1, 24), 1, 0),
     RepoEntry("lib.py", FALSE, TRUE, FALSE, 0, "\n", "", 0, 0)}

\* the repositories: at most MaxRepoFiles entries, no path twice
Repos ==
    {r \in SUBSET RepoPool :
        /\ Cardinality(r) <= MaxRepoFiles
        /\ \A e1, e2 \in r : e1.path = e2.path => e1 = e2}

InitScan ==
    /\ MainIdle
    /\ FnIdle
    /\ repo \in Repos
    /\ scanned = <<>> /\ findings = <<>> /\ scan_pc = "scan"
    /\ scan_out = <<>> /\ scan_exit = -1
    /\ tree = <<>> /\ readme = "" /\ roadmap = "" /\ status = <<>>
    /\ features = <<>> /\ coverage = <<>> /\ gen_pc = "off" /\ gen_out = <<>>
    /\ gen_files = <<>>

\* the candidate files that iter_candidate_files has not yielded yet
Unscanned == {e \in repo : IsCandidate(e) /\ e.path \notin Range(scanned)}

\* one pass of the loop of main (lines 94-96); rglob yields in any order
ScanNext ==
    /\ scan_pc = "scan"
    /\ \E e \in Unscanned :
          LET found == scan_file(e)
          IN  /\ scanned' = Append(scanned, e.path)
              /\ findings' = findings \o
                     [k \in 1..Len(found) |-> <<e.path>> \o found[k]]
    /\ UNCHANGED <<repo, scan_pc, scan_out, scan_exit>>
    /\ UNCHANGED <<mainVars, fnVars, genVars>>

\* f"- {label}: {relative}:{line_number} -> {snippet}"
FindingLine(f) ==
    "- " \o f[3] \o ": " \o f[1] \o ":" \o ToString(f[2]) \o " "
    \o RIGHTWARDS_ARROW \o " " \o f[4]

\* the end of main (lines 98-108), once the loop has run out of files
Report ==
    /\ scan_pc = "scan"
    /\ Unscanned = {}
    /\ IF findings = <<>>
       THEN /\ scan_out' = <<WHITE_CHECK_MARK
                             \o " Secret scan passed: no suspicious tokens detected.">>
            /\ scan_exit' = 0
       ELSE /\ scan_out' = <<CROSS_MARK \o " Potential secrets detected:", "">>
                \o [k \in 1..Len(findings) |-> FindingLine(findings[k])]
                \o <<"", "Resolve or confirm false positives before archiving the release build.">>
            /\ scan_exit' = 1
    /\ scan_pc' = "done"
    /\ UNCHANGED <<repo, scanned, findings>>
    /\ UNCHANGED <<mainVars, fnVars, genVars>>

NextScan == ScanNext \/ Report

SpecScan == InitScan /\ [][NextScan]_vars

\* the candidate files of the repository, as built
BuiltCandidates == {e \in repo : e.candidate}

\* the candidate files that hold a secret in their text, as built
BuiltSecrets == {e \in BuiltCandidates : e.decodes /\ e.keys + e.tokens > 0}

\* the findings of main for the file at path with the label label
FindingsFor(path, label) ==
    {k \in 1..Len(findings) : findings[k][1] = path /\ findings[k][3] = label}

\* C11: the scanner exits with 1 exactly when some candidate file holds a
\* finding and with 0 otherwise; a finding never stops the scan, every
\* candidate file is scanned before anything is printed; and a scanned text
\* file with one occurrence of sk- and 24 or more alphanumeric characters has
\* exactly one openai_key finding, on line 1 + the number of newlines before
\* the match.
C11_ScanAllThenReport ==
    /\ scan_pc = "done" =>
           /\ scan_exit = (IF BuiltSecrets # {} THEN 1 ELSE 0)
           /\ (scan_exit = 1) <=> (findings # <<>>)
    /\ (scan_pc = "done" \/ scan_out # <<>>) =>
           /\ Range(scanned) = {e.path : e \in BuiltCandidates}
           /\ Len(scanned) = Cardinality(BuiltCandidates)
    /\ (scan_pc = "scan" /\ findings # <<>>) => scan_out = <<>> /\ scan_exit = -1
    /\ \A e \in repo :
           (e.path \in Range(scanned) /\ e.decodes /\ e.keys = 1) =>
               /\ Cardinality(FindingsFor(e.path, "openai_key")) = 1
               /\ \A k \in FindingsFor(e.path, "openai_key") :
                      findings[k][2] = e.before + 1

C11_Witness ==
    /\ scan_pc = "done"
    /\ scan_exit = 1
    /\ scanned = <<"cfg.JSON", "k.py", "App.swift">>
    /\ Len(findings) = 3
    /\ findings[1] = <<"cfg.JSON", 2, "openai_key", "sk-" \o Slice(Alphabet, 1, 30)>>
    /\ findings[2][2] = 4 /\ findings[2][3] = "openai_key"
    /\ findings[3][2] = 4 /\ findings[3][3] = "generic_token"

---------------------------------------------------------------------------
(* scripts/generate_portfolio_content.py                                   *)

\* the non-ASCII characters of the generator's cells and messages, each as
\* one ASCII character (the check mark of a complete row is WHITE_CHECK_MARK,
\* the cross of a pending row is CROSS_MARK)
YELLOW_CIRCLE == "@"
ROCKET == "^"
WARNING_SIGN == "!"
CHECK_MARK == "v"

PORTFOLIO_DIR == "_portfolio_output"

\* text.split(sep); the text and the index of the separator are evaluated
\* once, as members of a set
RECURSIVE SplitOn(_, _)
SplitOn(text0, sep) ==
    CHOOSE parts \in
        {IF i = 0 THEN <<s>>
         ELSE <<Slice(s, 1, i - 1)>> \o SplitOn(Slice(s, i + Len(sep), Len(s)), sep) :
             <<s, i>> \in {<<x, FindFrom(x, sep, 1)>> : x \in {text0}}} : TRUE

\* html.escape(s): the five replacements in the order of the library, each
\* made on the result of the one before
html_escape(s) ==
    CHOOSE e \in
        {Replace(d, "'", "&#x27;") : d \in
        {Replace(c, "\"", "&quot;") : c \in
        {Replace(b, ">", "&gt;") : b \in
        {Replace(a, "<", "&lt;") : a \in
        {Replace(s, "&", "&amp;")}}}}} : TRUE

\* \d{4}-\d{2}-\d{2} matches the whole of d
IsDate(d) ==
    /\ Len(d) = 10
    /\ \A k \in {1, 2, 3, 4, 6, 7, 9, 10} : Char(d, k) \in Digits
    /\ Char(d, 5) = "-" /\ Char(d, 8) = "-"

\* re.search(r"\*\*\[(\d{4}-\d{2}-\d{2})\] Status Snapshot:\*\*", content)
extract_status_from_roadmap(content) ==
    LET close == "] Status Snapshot:**"
        hits  == {i \in 1..Len(content) :
                     /\ Slice(content, i, i + 2) = "**["
                     /\ IsDate(Slice(content, i + 3, i + 12))
                     /\ Slice(content, i + 13, i + 12 + Len(close)) = close}
    IN  [phase |-> "Phase 1 Complete",
         last_updated |-> IF hits = {} THEN "2025-11-07"
                          ELSE Slice(content, MinOf(hits) + 3, MinOf(hits) + 12)]

\* re.match(r"- \*\*([^*]+)\*\*:?\s*(.+)?", line): <<>> when there is no
\* match, <<the feature>> otherwise
FeatureMatch(line) ==
    CHOOSE m \in
        {LET colon == IF Slice(line, k + 2, k + 2) = ":" THEN 1 ELSE 0
             d     == RunEnd(line, k + 2 + colon, Whitespace)
         IN  IF Slice(line, 1, 4) = "- **" /\ k > 5 /\ Slice(line, k, k + 1) = "**"
             THEN <<[name |-> Slice(line, 5, k - 1),
                     description |-> Slice(line, d, Len(line))]>>
             ELSE <<>> :
             k \in {FindFrom(line, "*", 5)}} : TRUE     \* k: the end of [^*]+

\* the features of the lines lines[k..], in order
RECURSIVE FeaturesFrom(_, _)
FeaturesFrom(lines, k) ==
    IF k > Len(lines) THEN <<>>
    ELSE FeatureMatch(lines[k]) \o FeaturesFrom(lines, k + 1)

\* re.search(r"## Core Features\n\n(.*?)(?=\n---|\n## )", content, re.DOTALL):
\* 0 when there is no match, else <<first, last>> of group 1
CoreFeaturesBody(content) ==
    LET header == "## Core Features\n\n"
        h      == FindFrom(content, header, 1)
        first  == h + Len(header)
        stops  == {FindFrom(content, "\n---", first),
                   FindFrom(content, "\n## ", first)} \ {0}
    IN  IF h = 0 \/ stops = {} THEN <<>> ELSE <<first, MinOf(stops) - 1>>

\* a variant that reads the bullets of the whole document when the list
\* has no heading of its own
extract_features_anywhere(content) ==
    CHOOSE found \in
        {IF body = <<>>
         THEN CHOOSE fs \in {FeaturesFrom(lines, 1) :
                                 lines \in {SplitOn(content, "\n")}} : TRUE
         ELSE CHOOSE fs \in {FeaturesFrom(lines, 1) :
                                 lines \in {SplitOn(Slice(content, body[1], body[2]), "\n")}} : TRUE :
             body \in {CoreFeaturesBody(content)}} : TRUE

\* match.group(1).split("\n") and the loop over it; the match and the lines
\* are evaluated once, as members of a set
extract_features_from_readme(content) ==
    CHOOSE found \in
        {IF body = <<>> THEN <<>>
         ELSE CHOOSE fs \in {FeaturesFrom(lines, 1) :
                                 lines \in {SplitOn(Slice(content, body[1], body[2]), "\n")}} : TRUE :
             body \in {CoreFeaturesBody(content)}} : TRUE

\* [p.strip() for p in line.split("|")[1:-1]]
TableCells(line) ==
    CHOOSE parts \in
        {[k \in 1..(Len(right) - 2) |-> LStrip(right[k + 1])] :
             right \in {[k \in 1..Len(cells) |-> RStrip(cells[k])] :
                            cells \in {SplitOn(line, "|")}}} : TRUE

\* the item appended for the cells parts (lines 57-68)
CoverageItem(parts) ==
    CHOOSE item \in
        {[feature |-> Replace(p[1], "**", ""),
          status  |-> IF Contains(p[2], WHITE_CHECK_MARK) THEN "complete"
                      ELSE IF Contains(p[2], YELLOW_CIRCLE) THEN "partial"
                      ELSE "pending",
          details |-> Slice(p[3], 1, 80)] : p \in {parts}} : TRUE

\* one pass of the loop of extract_api_coverage (lines 50-70) on
\* st = [coverage, in_table, stopped]; stopped is set by the break
CoverageStep(st, line) ==
    IF st.stopped THEN st
    ELSE IF Contains(line, "| API Feature Category") THEN [st EXCEPT !.in_table = TRUE]
    ELSE IF ~st.in_table THEN st
    ELSE IF StartsWith(line, "|") /\ ~Contains(line, "---")
    THEN CHOOSE next \in
             {IF Len(parts) >= 3 /\ parts[1] # ""
              THEN [st EXCEPT !.coverage = Append(@, CoverageItem(parts))]
              ELSE st : parts \in {TableCells(line)}} : TRUE
    ELSE IF ~StartsWith(line, "|") THEN [st EXCEPT !.stopped = TRUE]
    ELSE st

\* the loop over lines[lo..hi], in order, the range halved so that
\* evaluation stays shallow
RECURSIVE CoverageLoop(_, _, _, _)
CoverageLoop(st, lines, lo, hi) ==
    IF lo > hi THEN st
    ELSE IF lo = hi
    THEN CHOOSE next \in {CoverageStep(s, l) : <<s, l>> \in {<<st, lines[lo]>>}} : TRUE
    ELSE CHOOSE right \in
             {CoverageLoop(left, lines, (lo + hi) \div 2 + 1, hi) :
                  left \in {CoverageLoop(st, lines, lo, (lo + hi) \div 2)}} : TRUE

extract_api_coverage(content) ==
    CHOOSE found \in
        {CoverageLoop([coverage |-> <<>>, in_table |-> FALSE, stopped |-> FALSE],
                      lines, 1, Len(lines)).coverage :
             lines \in {SplitOn(content, "\n")}} : TRUE

\* read_file_safe(path): the content read, and the lines it prints
read_file_safe(path) == IF DictHas(tree, path) THEN DictGet(tree, path) ELSE ""

ReadWarning(path) ==
    IF DictHas(tree, path) THEN <<>>
    ELSE <<"  " \o WARNING_SIGN \o "  File not found: " \o path>>

\* the loop over features[:6] of generate_index_html
RECURSIVE FeatureCards(_, _)
FeatureCards(fs, k) ==
    IF k > MinOf({6, Len(fs)}) THEN ""
    ELSE "\n        <div class=\"feature-card\">"
         \o "\n            <h3>" \o html_escape(fs[k].name) \o "</h3>"
         \o "\n            <p>" \o html_escape(fs[k].description) \o "</p>"
         \o "\n        </div>" \o FeatureCards(fs, k + 1)

CoverageIcon(c) ==
    IF c.status = "complete" THEN WHITE_CHECK_MARK
    ELSE IF c.status = "partial" THEN YELLOW_CIRCLE ELSE CROSS_MARK

\* the loop over coverage[:10] of generate_index_html
RECURSIVE CoverageRows(_, _)
CoverageRows(cs, k) ==
    IF k > MinOf({10, Len(cs)}) THEN ""
    ELSE "\n        <tr class=\"" \o cs[k].status \o "\">"
         \o "\n            <td>" \o html_escape(cs[k].feature) \o "</td>"
         \o "\n            <td>" \o CoverageIcon(cs[k]) \o "</td>"
         \o "\n            <td>" \o html_escape(cs[k].details) \o "...</td>"
         \o "\n        </tr>" \o CoverageRows(cs, k + 1)

\* generate_index_html: of the template, the elements that take a value;
\* the text between them, which is the same in every run, is left out;
\* now is datetime.now().isoformat()
generate_index_html(st, fs, cs, now) ==
    "<!DOCTYPE html>\n"
    \o "<span class=\"status-badge\">" \o html_escape(st.phase) \o "</span>\n"
    \o "<span class=\"date-badge\">Updated: " \o html_escape(st.last_updated) \o "</span>\n"
    \o "<div class=\"features-grid\">" \o FeatureCards(fs, 1) \o "</div>\n"
    \o "<tbody>" \o CoverageRows(cs, 1) \o "</tbody>\n"
    \o "<p class=\"sync-time\">Last sync: " \o Slice(now, 1, 10) \o " "
    \o Slice(now, 12, 16) \o "</p>\n</html>"

\* generate_styles: a constant style sheet, its rules left out
generate_styles == ":root { }\n"

\* what datetime.now().isoformat() may return
Clock == {"2025-11-08T09:30:00", "2025-11-08T09:31:07.250000"}

\* the files main reads, and those it copies
COPIED_DOCS == <<"README.md", "docs/ROADMAP.md", "docs/Tools.md", "PRIVACY.md">>

\* a README.md as built: it has a Core Features list or not, of the given
\* bullets, closed by a rule or running to the end of the document; a
\* bullet outside the list stands in every README
Readme(list, bullets, closed) ==
    [exists |-> TRUE, list |-> list, bullets |-> bullets, closed |-> closed,
     text |-> "# OpenResponses\n\n- **Fast** native client\n\n"
              \o (IF list
                  THEN "## Core Features\n\n" \o Join(bullets, "\n")
                       \o (IF closed THEN "\n\n---\n" ELSE "")
                  ELSE "## Usage\n\nRun it.\n\n---\n")]

MissingReadme ==
    [exists |-> FALSE, list |-> FALSE, bullets |-> <<>>, closed |-> FALSE, text |-> ""]

ReadmePool ==
    {MissingReadme,
     Readme(FALSE, <<>>, TRUE),
     Readme(TRUE, <<"- **Chat:** Talk & <b>", "- **Secure**", "plain line">>, TRUE),
     Readme(TRUE, [k \in 1..7 |-> "- **F" \o ToString(k) \o "** does " \o ToString(k)], TRUE),
     Readme(TRUE, <<"- **Chat** talk">>, FALSE)}

\* a docs/ROADMAP.md as built: with a status snapshot of the given date or
\* none (""), the date well formed or not, and the given table lines
Roadmap(snapshot, dated, table) ==
    [exists |-> TRUE, snapshot |-> snapshot, dated |-> dated,
     text |-> "# Roadmap\n\n"
              \o (IF snapshot = "" THEN ""
                  ELSE "**[" \o snapshot \o "] Status Snapshot:** on track\n\n")
              \o Join(table, "\n")]

MissingRoadmap == [exists |-> FALSE, snapshot |-> "", dated |-> FALSE, text |-> ""]

CoverageTable ==
    <<"| API Feature Category | Status | Notes |", "|---|---|---|",
      "| **Streaming** | " \o WHITE_CHECK_MARK \o " | all events |",
      "| Files | " \o YELLOW_CIRCLE \o " | upload only |",
      "| Audio | " \o CROSS_MARK \o " | planned |", "">>

RoadmapPool ==
    {MissingRoadmap,
     Roadmap("", FALSE, <<"Nothing yet.">>),
     Roadmap("2025-10-31", TRUE, CoverageTable),
     Roadmap("2025-1-02", FALSE, CoverageTable),
     Roadmap("", FALSE, CoverageTable)}

\* docs/Tools.md and PRIVACY.md: missing (<<>>) or with the content given
ToolsPool == {<<>>, <<"">>, <<"# Tools\n">>}

PrivacyPool == {<<>>, <<"# Privacy\n">>}

\* the input files that exist, path -> content
Tree(r, m, tools, privacy) ==
    (IF r.exists THEN <<<<"README.md", r.text>>>> ELSE <<>>)
    \o (IF m.exists THEN <<<<"docs/ROADMAP.md", m.text>>>> ELSE <<>>)
    \o [k \in 1..Len(tools) |-> <<"docs/Tools.md", tools[k]>>]
    \o [k \in 1..Len(privacy) |-> <<"PRIVACY.md", privacy[k]>>]

InitPortfolio ==
    /\ MainIdle
    /\ arg = "" /\ result = <<>> /\ applied = "none"
    /\ repo = {} /\ scanned = <<>> /\ findings = <<>> /\ scan_pc = "off"
    /\ scan_out = <<>> /\ scan_exit = -1
    /\ \E r \in ReadmePool, m \in RoadmapPool, tools \in ToolsPool, privacy \in PrivacyPool :
          /\ input = [readme |-> r, roadmap |-> m]
          /\ tree = Tree(r, m, tools, privacy)
    /\ readme = "" /\ roadmap = "" /\ status = <<>> /\ features = <<>>
    /\ coverage = <<>> /\ gen_pc = "start" /\ gen_out = <<>> /\ gen_files = <<>>

\* lines 246-251
ReadInputs ==
    /\ gen_pc = "start"
    /\ readme' = read_file_safe("README.md")
    /\ roadmap' = read_file_safe("docs/ROADMAP.md")
    /\ gen_out' = <<ROCKET \o " Generating portfolio content...">>
                  \o ReadWarning("README.md") \o ReadWarning("docs/ROADMAP.md")
    /\ gen_pc' = "extract"
    /\ UNCHANGED <<tree, status, features, coverage, gen_files>>
    /\ UNCHANGED <<mainVars, fnVars, scanVars>>

\* lines 253-257
Extract ==
    /\ gen_pc = "extract"
    /\ status' = extract_status_from_roadmap(roadmap)
    /\ features' = extract_features_from_readme(readme)
    /\ coverage' = extract_api_coverage(roadmap)
    /\ gen_out' = Append(gen_out,
           "  " \o CHECK_MARK \o " Found " \o ToString(Len(features')) \o " features, "
           \o ToString(Len(coverage')) \o " API items")
    /\ gen_pc' = "index"
    /\ UNCHANGED <<tree, readme, roadmap, gen_files>>
    /\ UNCHANGED <<mainVars, fnVars, scanVars>>

\* lines 259-261
WriteIndex ==
    /\ gen_pc = "index"
    /\ \E now \in Clock :
          gen_files' = Append(gen_files,
              [path |-> PORTFOLIO_DIR \o "/index.html",
               content |-> generate_index_html(status, features, coverage, now)])
    /\ gen_out' = Append(gen_out, "  " \o CHECK_MARK \o " Generated index.html")
    /\ gen_pc' = "styles"
    /\ UNCHANGED <<tree, readme, roadmap, status, features, coverage>>
    /\ UNCHANGED <<mainVars, fnVars, scanVars>>

\* lines 263-265
WriteStyles ==
    /\ gen_pc = "styles"
    /\ gen_files' = Append(gen_files,
           [path |-> PORTFOLIO_DIR \o "/styles.css", content |-> generate_styles])
    /\ gen_out' = Append(gen_out, "  " \o CHECK_MARK \o " Generated styles.css")
    /\ gen_pc' = "copy"
    /\ UNCHANGED <<tree, readme, roadmap, status, features, coverage>>
    /\ UNCHANGED <<mainVars, fnVars, scanVars>>

\* the files written and the lines printed by the loop of lines 267-271
\* over COPIED_DOCS[k..]
RECURSIVE CopiedFrom(_)
CopiedFrom(k) ==
    IF k > Len(COPIED_DOCS) THEN <<>>
    ELSE (IF read_file_safe(COPIED_DOCS[k]) # ""
          THEN <<[path |-> PORTFOLIO_DIR \o "/docs/" \o PathName(COPIED_DOCS[k]),
                  content |-> read_file_safe(COPIED_DOCS[k])]>>
          ELSE <<>>) \o CopiedFrom(k + 1)

RECURSIVE CopyWarningsFrom(_)
CopyWarningsFrom(k) ==
    IF k > Len(COPIED_DOCS) THEN <<>>
    ELSE ReadWarning(COPIED_DOCS[k]) \o CopyWarningsFrom(k + 1)

\* lines 267-272
CopyDocs ==
    /\ gen_pc = "copy"
    /\ gen_files' = gen_files \o CopiedFrom(1)
    /\ gen_out' = gen_out \o CopyWarningsFrom(1)
                  \o <<"  " \o CHECK_MARK \o " Copied markdown docs">>
    /\ gen_pc' = "manifest"
    /\ UNCHANGED <<tree, readme, roadmap, status, features, coverage>>
    /\ UNCHANGED <<mainVars, fnVars, scanVars>>

\* lines 274-283
WriteManifest ==
    /\ gen_pc = "manifest"
    /\ \E now \in Clock :
          gen_files' = Append(gen_files,
              [path |-> PORTFOLIO_DIR \o "/manifest.json",
               content |-> "{\"generated_at\": \"" \o now
                           \o "\", \"source\": \"Gunnarguy/OpenResponses\"}"])
    /\ gen_out' = gen_out
                  \o <<"", WHITE_CHECK_MARK \o " Done! Output in " \o PORTFOLIO_DIR \o "/">>
    /\ gen_pc' = "done"
    /\ UNCHANGED <<tree, readme, roadmap, status, features, coverage>>
    /\ UNCHANGED <<mainVars, fnVars, scanVars>>

NextPortfolio ==
    \/ ReadInputs
    \/ Extract
    \/ WriteIndex
    \/ WriteStyles
    \/ CopyDocs
    \/ WriteManifest

\* the script runs on step by step until main returns
SpecPortfolio == InitPortfolio /\ [][NextPortfolio]_vars /\ WF_vars(NextPortfolio)

\* how often p occurs in s
CountOf(s, p) == Cardinality({i \in 1..Len(s) : Slice(s, i, i + Len(p) - 1) = p})

\* the content of the file written at path (<<>> when none was, all of them
\* when it was written more than once)
Written(path) ==
    LET at == {k \in 1..Len(gen_files) : gen_files[k].path = path}
    IN  AtIndices([k \in 1..Len(gen_files) |-> gen_files[k].content], at)

\* the run has read its two inputs
InputsRead == gen_pc \notin {"off", "start"}

\* the run has extracted status, features and coverage
Extracted == gen_pc \notin {"off", "start", "extract"}

\* C12, at every point of the run: a missing input file is read as empty
\* content; a README without a Core Features list yields no feature and no
\* feature card in index.html; a roadmap without a status snapshot leaves
\* the default phase and date, also in index.html; and a run that is over has
\* written index.html, styles.css and manifest.json.
C12_DegradesGracefully ==
    /\ InputsRead =>
           /\ ~input.readme.exists => readme = ""
           /\ ~input.roadmap.exists => roadmap = ""
    /\ (Extracted /\ ~input.readme.list) => features = <<>>
    /\ (Extracted /\ ~input.roadmap.dated) =>
           status = [phase |-> "Phase 1 Complete", last_updated |-> "2025-11-07"]
    /\ gen_pc = "done" =>
           /\ Len(Written(PORTFOLIO_DIR \o "/index.html")) = 1
           /\ Len(Written(PORTFOLIO_DIR \o "/styles.css")) = 1
           /\ Len(Written(PORTFOLIO_DIR \o "/manifest.json")) = 1
           /\ ~input.readme.list =>
                  CountOf(Written(PORTFOLIO_DIR \o "/index.html")[1], "feature-card") = 0
           /\ ~input.roadmap.dated =>
                  /\ Contains(Written(PORTFOLIO_DIR \o "/index.html")[1],
                              "<span class=\"status-badge\">Phase 1 Complete</span>")
                  /\ Contains(Written(PORTFOLIO_DIR \o "/index.html")[1],
                              "Updated: 2025-11-07</span>")

\* C12: the generator never aborts because input is missing; whatever is
\* missing, the run reaches its end, and all along it degrades as stated.
C12_NeverAbortsOnMissingInput ==
    /\ [](C12_DegradesGracefully)
    /\ <>(gen_pc = "done")

C12_Witness ==
    /\ gen_pc = "done"
    /\ tree = <<>>
    /\ features = <<>> /\ coverage = <<>>
    /\ Len(gen_files) = 3
    /\ Len(gen_out) = 13

(***************************************************************************)
(* extract_api_coverage applied to documents                               *)

\* how many lines a document handed to extract_api_coverage may have
MaxCoverageLines == 4

\* a table row as built, and the item extract_api_coverage makes of it
CoverageRow(feature, bold, mark, st, details) ==
    [kind |-> "row",
     text |-> "| " \o (IF bold THEN "**" \o feature \o "**" ELSE feature)
              \o " | " \o mark \o " | " \o details \o " |",
     item |-> [feature |-> feature, status |-> st, details |-> details]]

\* a line of another kind
CoverageLine(kind, s) ==
    [kind |-> kind, text |-> s, item |-> [feature |-> "", status |-> "", details |-> ""]]

CoverageLinePool ==
    {CoverageLine("header", "| API Feature Category | Status | Notes |"),
     CoverageLine("mention", "See | API Feature Category above."),
     CoverageLine("separator", "|---|---|---|"),
     CoverageRow("Audio", FALSE, WHITE_CHECK_MARK, "complete", "in and out"),
     CoverageRow("Files", TRUE, YELLOW_CIRCLE \o " soon", "partial", "upload"),
     CoverageLine("skipped", "|  | " \o CROSS_MARK \o " | no name |"),
     CoverageLine("blank", ""),
     CoverageLine("prose", "Notes follow.")}

InitCoverage ==
    /\ MainIdle
    /\ ScriptsIdle
    /\ input \in SeqsUpTo(CoverageLinePool, MaxCoverageLines)
    /\ arg = ""
    /\ result = <<>>
    /\ applied = "none"

ApplyExtractApiCoverage ==
    /\ applied = "none"
    /\ pc = "off"
    /\ result' = extract_api_coverage(Join([i \in 1..Len(input) |-> input[i].text], "\n"))
    /\ applied' = "extract_api_coverage"
    /\ UNCHANGED <<input, arg>>
    /\ UNCHANGED mainVars
    /\ UNCHANGED <<scanVars, genVars>>

NextCoverage == ApplyExtractApiCoverage

SpecCoverage == InitCoverage /\ [][NextCoverage]_vars

\* the lines of ds that hold the text "| API Feature Category"
HoldsMarker(ds) == {i \in 1..Len(ds) : ds[i].kind \in {"header", "mention"}}

\* the lines of ds that do not start with "|"
NoBar(ds) == {i \in 1..Len(ds) : ds[i].kind \in {"mention", "blank", "prose"}}

\* the first of the lines of S that comes after line h, Len(ds) + 1 when
\* there is none
FirstAfter(ds, h, S) == MinOf({i \in S : i > h} \cup {Len(ds) + 1})

\* the items of the rows of ds between line h and line stop, in order
RowsBetween(ds, h, stop) ==
    AtIndices([i \in 1..Len(ds) |-> ds[i].item],
              {i \in 1..Len(ds) : ds[i].kind = "row" /\ h < i /\ i < stop})

\* C13 as claimed: the result holds, in document order, the rows that come
\* after the first line containing "| API Feature Category" and before the
\* first later line that does not start with "|", and no other row.
C13_SingleContiguousBlock ==
    applied = "extract_api_coverage" =>
        IF HoldsMarker(input) = {} THEN result = <<>>
        ELSE result = RowsBetween(input, MinOf(HoldsMarker(input)),
                                  FirstAfter(input, MinOf(HoldsMarker(input)), NoBar(input)))

\* C13, what the code does: a line that does not start with "|" but holds
\* "| API Feature Category" is taken for a header again and does not end the
\* table; the rows run to the first later line that neither starts with "|"
\* nor holds that text.
C13_BlockRunsOverMentions ==
    applied = "extract_api_coverage" =>
        IF HoldsMarker(input) = {} THEN result = <<>>
        ELSE result = RowsBetween(input, MinOf(HoldsMarker(input)),
                                  FirstAfter(input, MinOf(HoldsMarker(input)),
                                             NoBar(input) \ HoldsMarker(input)))

\* C13: a table whose rows run on after a line of prose that names the header
C13_RowAfterMention ==
    /\ applied = "extract_api_coverage"
    /\ Len(input) = 4
    /\ input[1].kind = "header" /\ input[2].kind = "row"
    /\ input[3].kind = "mention" /\ input[4].kind = "row"
    /\ Len(result) = 2

=============================================================================
